---- MODULE Spec2Model ----
(***************************************************************************)
(* A model of the request layer of lidarr-api:                             *)
(*   - retry_with_backoff  (bin/lidarr_search.py, examples/search_artist.py)*)
(*   - the pagination loop of export_wanted_albums (lidarr_api/data_utils.py)*)
(*   - LidarrClient._request and its retrying session (lidarr_api/client.py)*)
(*   - Config and its JSON file (lidarr_api/config.py)                     *)
(*   - the start of the programs: main of bin/lidarr_search.py and         *)
(*     setup_client of lidarr_api/data_utils.py                            *)
(*   - import_artists_from_json and import_tags_from_config                *)
(*     (lidarr_api/data_utils.py)                                          *)
(*   - the commands restore_backup, clear_blocklist                        *)
(*     (lidarr_api/system_maintenance.py), check_recent_history            *)
(*     (scripts/monitoring.py) and remove_queue_item                       *)
(*     (scripts/library_manager.py)                                        *)
(*   - system_status_check and the exit status main makes of it            *)
(*     (scripts/monitoring.py)                                             *)
(* Each part has its own specification over the shared variables; the     *)
(* variables of the other parts stay at their initial values.              *)
(***************************************************************************)
EXTENDS Integers, Sequences, FiniteSets, TLC

VARIABLES
    \* ---- retry_with_backoff ----
    variant,         \* which copy of the helper runs: "bin" or "examples"
    max_retries,     \* argument
    initial_wait,    \* argument
    backoff_factor,  \* argument
    wait_time,       \* local
    last_exception,  \* local: None or the exception caught last
    attempt,         \* loop variable of range(max_retries)
    rb_pc,           \* "loop" | "done"
    rb_outcome,      \* None | [kind |-> "return", value] | [kind |-> "raise", exc]
    calls,           \* outcomes of the invocations of func so far, in order
    sleeps           \* arguments of time.sleep so far, in order

rbVars == <<variant, max_retries, initial_wait, backoff_factor, wait_time,
            last_exception, attempt, rb_pc, rb_outcome, calls, sleeps>>

VARIABLES
    \* ---- export_wanted_albums ----
    output_file,     \* argument: None or a path
    format_type,     \* argument
    all_wanted,      \* local: the accumulated records
    page,            \* local: the next page to request
    pg_pc,           \* "loop" | "output" | "done"
    pg_outcome,      \* None | [kind |-> "return"] | [kind |-> "raise", exc]
    requested,       \* the (page, page_size) of every get_wanted call, in order
    served,          \* the outcome of every get_wanted call, in order
    written,         \* None, or what was written to the file or to stdout
    stderr_log       \* the messages printed to stderr, in order

pgVars == <<output_file, format_type, all_wanted, page, pg_pc, pg_outcome,
            requested, served, written, stderr_log>>

VARIABLES
    \* ---- LidarrClient ----
    instances,          \* the clients that have been constructed
    cfg,                \* per client: rate_limit, retry_total, timeout (set
                        \* by __init__)
    last_request_time,  \* per client: self.last_request_time
    now,                \* the clock read by time.time()
    gw_pc,              \* per client: "idle" | "sleeping" | "sending"
    call,               \* per client: the call in progress, or the last one
    gw_outcome,         \* per client: None | [kind |-> "return", value]
                        \*             | [kind |-> "raise", exc]
    hist,               \* per client: calls started, and when the first started
    env                 \* the surroundings: what the server may answer, how
                        \* long the clock runs, how many calls are made

gwVars == <<instances, cfg, last_request_time, now, gw_pc, call, gw_outcome,
            hist, env>>

VARIABLES
    \* ---- Config ----
    config_path,     \* the path every Config is given
    disk,            \* the file at config_path
    configs,         \* per Config object: None, or self.settings
    cf_last,         \* the last operation on a Config and what it returned
    cf_saved,        \* per Config object: the arguments of the
                     \* save_connection_settings that returned last, while
                     \* its settings are still the ones it left
    cf_written,      \* the arguments of the save_connection_settings that
                     \* wrote the file last
    cf_loaded        \* per Config object: cf_written when it was loaded

cfVars == <<config_path, disk, configs, cf_last, cf_saved, cf_written, cf_loaded>>

VARIABLES
    \* ---- the start of a command-line program ----
    st_prog,         \* "lidarr_search" (main) or "data_utils" (setup_client)
    st_args,         \* the parsed command line: url, api_key, save_connection
    st_pc,           \* "start" | "client" | "done"
    st_outcome,      \* None | [kind |-> "return", value] | [kind |-> "exit",
                     \* status] | [kind |-> "raise", exc]
    st_clients,      \* the LidarrClient objects constructed, in order
    st_requests      \* the number of requests issued

stVars == <<st_prog, st_args, st_pc, st_outcome, st_clients, st_requests>>

VARIABLES
    \* ---- import_artists_from_json, import_tags_from_config ----
    im_fn,           \* which of the two runs: "artists" or "tags"
    dry_run,         \* argument
    im_input,        \* what reading the input file or stdin gives
    im_pc,           \* "read" | "prepare" | "loop" | "summary" | "done"
    im_idx,          \* the number of items the loop has been through
    added_count,     \* local
    skipped_count,   \* local
    error_count,     \* local (import_artists_from_json)
    im_calls,        \* the operations called on the client, in order
    im_out           \* the lines printed to stdout, in order

imVars == <<im_fn, dry_run, im_input, im_pc, im_idx, added_count,
            skipped_count, error_count, im_calls, im_out>>

VARIABLES
    \* ---- restore_backup, clear_blocklist, check_recent_history,
    \*      remove_queue_item ----
    sc_fn,           \* which of the four runs
    sc_args,         \* its arguments
    sc_pc,           \* "start" | "asked" | "done"
    sc_answer,       \* None, or what input() gave
    sc_outcome,      \* None | [kind |-> "return"] | [kind |-> "raise", exc]
    sc_calls,        \* the methods called on the client, with the
                     \* parameters their arguments were bound to, in order
    sc_requests,     \* the requests the client issued, in order
    sc_out           \* the lines printed to stdout, in order

scVars == <<sc_fn, sc_args, sc_pc, sc_answer, sc_outcome, sc_calls,
            sc_requests, sc_out>>

VARIABLES
    \* ---- system_status_check ----
    ck_replies,      \* what the four calls on the client give
    ck_pc,           \* "system" | "disks" | "disk" | "queue" | "wanted"
                     \* | "returned" | "exited"
    ck_idx,          \* the number of disks the loop has been through
    ck_status,       \* results['status']
    ck_warnings,     \* results['warnings']
    ck_errors,       \* results['errors']
    ck_exit          \* None, or the exit status main returns

ckVars == <<ck_replies, ck_pc, ck_idx, ck_status, ck_warnings, ck_errors,
            ck_exit>>

vars == <<rbVars, pgVars, gwVars, cfVars, stVars, imVars, scVars, ckVars>>

\* What a step of one part leaves alone: the variables of the other parts.
RbFrame == UNCHANGED <<pgVars, gwVars, cfVars, stVars, imVars, scVars, ckVars>>
PgFrame == UNCHANGED <<rbVars, gwVars, cfVars, stVars, imVars, scVars, ckVars>>
GwFrame == UNCHANGED <<rbVars, pgVars, cfVars, stVars, imVars, scVars, ckVars>>
CfFrame == UNCHANGED <<rbVars, pgVars, gwVars, stVars, imVars, scVars, ckVars>>
StFrame == UNCHANGED <<rbVars, pgVars, gwVars, imVars, scVars, ckVars>>
ImFrame == UNCHANGED <<rbVars, pgVars, gwVars, cfVars, stVars, scVars, ckVars>>
ScFrame == UNCHANGED <<rbVars, pgVars, gwVars, cfVars, stVars, imVars, ckVars>>
CkFrame == UNCHANGED <<rbVars, pgVars, gwVars, cfVars, stVars, imVars, scVars>>

None == [kind |-> "None"]

(***************************************************************************)
(* Bounds of the model.                                                    *)
(***************************************************************************)
MaxRetriesArg == 3      \* max_retries ranges over 0..MaxRetriesArg
MaxWaitArg == 2         \* initial_wait ranges over 1..MaxWaitArg
MaxFactorArg == 2       \* backoff_factor ranges over 1..MaxFactorArg
MaxPages == 4           \* the server is asked for at most MaxPages pages
MaxRetryTotal == 2      \* retry_total ranges over 0..MaxRetryTotal
MaxRateLimit == 2       \* rate_limit ranges over 1..MaxRateLimit clock ticks
MaxCalls == 3           \* calls made through one client when timing is observed
Horizon == 4            \* ... and the clock then runs from Epoch to Epoch + Horizon
RetryCalls == 2         \* calls made through one client when retries are observed
RetryHorizon == 1       \* ... and the clock then runs to Epoch + RetryHorizon
Epoch == 10             \* the clock's value when the model starts
MaxTimeoutArg == 2      \* timeout ranges over 30, 60, ..., 30 * MaxTimeoutArg
TwoCalls == 2           \* calls made through each of two clients
TwoHorizon == 2         \* ... and the clock then runs to Epoch + TwoHorizon
MaxSlashes == 2         \* a URL ends with 0..MaxSlashes slashes
MaxItems == 2           \* the input of an import lists 0..MaxItems items
MaxAnswerLen == 3       \* an answer at a prompt has 0..MaxAnswerLen characters
MaxQueueId == 2         \* queue items are numbered 1..MaxQueueId
MaxDisks == 2           \* the server reports 0..MaxDisks disks

(***************************************************************************)
(* retry_with_backoff                                                      *)
(***************************************************************************)

\* Ancestors with the interrupt and exit signals deriving from Exception.
AncestorsInterruptIsException(cls) ==
    CASE cls = "RequestException" ->
           {"RequestException", "OSError", "Exception", "BaseException"}
      [] cls \in {"requests.ConnectionError", "requests.Timeout",
                  "requests.HTTPError", "requests.RetryError"} ->
           {cls, "RequestException", "OSError", "Exception", "BaseException"}
      [] cls = "requests.ConnectTimeout" ->
           {cls, "requests.ConnectionError", "requests.Timeout",
            "RequestException", "OSError", "Exception", "BaseException"}
      [] cls = "requests.JSONDecodeError" ->
           {cls, "json.JSONDecodeError", "ValueError", "RequestException",
            "OSError", "Exception", "BaseException"}
      [] cls \in {"ConnectionError", "TimeoutError"} ->
           {cls, "OSError", "Exception", "BaseException"}
      [] OTHER -> {cls, "Exception", "BaseException"}

\* The classes an exception of class cls is an instance of (Python's and
\* requests' class hierarchy: RequestException derives from IOError, which
\* is OSError; the builtin ConnectionError and TimeoutError derive from
\* OSError; KeyboardInterrupt and SystemExit derive from BaseException only).
Ancestors(cls) ==
    CASE cls = "RequestException" ->
           {"RequestException", "OSError", "Exception", "BaseException"}
      [] cls \in {"requests.ConnectionError", "requests.Timeout",
                  "requests.HTTPError", "requests.RetryError"} ->
           {cls, "RequestException", "OSError", "Exception", "BaseException"}
      [] cls = "requests.ConnectTimeout" ->
           {cls, "requests.ConnectionError", "requests.Timeout",
            "RequestException", "OSError", "Exception", "BaseException"}
      [] cls = "requests.JSONDecodeError" ->
           {cls, "json.JSONDecodeError", "ValueError", "RequestException",
            "OSError", "Exception", "BaseException"}
      [] cls \in {"ConnectionError", "TimeoutError"} ->
           {cls, "OSError", "Exception", "BaseException"}
      [] cls \in {"KeyboardInterrupt", "SystemExit"} ->
           {cls, "BaseException"}
      [] OTHER -> {cls, "Exception", "BaseException"}

\* Whether `except (handled):` catches an exception of class cls.
Catches(handled, cls) == Ancestors(cls) \cap handled # {}

\* The classes of exception the wrapped operation may raise.
ExcClasses ==
    {"requests.ConnectionError", "ConnectionError", "TimeoutError", "KeyError",
     "KeyboardInterrupt", "SystemExit"}

\* except (KeyboardInterrupt, SystemExit): raise
SystemExceptions == {"KeyboardInterrupt", "SystemExit"}

\* except (requests.exceptions.RequestException, ConnectionError, TimeoutError)
ConnectivityExceptions == {"RequestException", "ConnectionError", "TimeoutError"}

\* The classes of ExcClasses the helper catches and retries: in
\* bin/lidarr_search.py the second handler, reached when the first does not
\* match; in examples/search_artist.py `except Exception`.
Retried(v) ==
    IF v = "bin"
      THEN {cls \in ExcClasses : /\ ~Catches(SystemExceptions, cls)
                                 /\ Catches(ConnectivityExceptions, cls)}
      ELSE {cls \in ExcClasses : Catches({"Exception"}, cls)}

\* An exception object: its class and the invocation that raised it.
Exc(cls, n) == [kind |-> "exc", cls |-> cls, by |-> n]

\* The interpreter's error for `raise None`.
RaiseNoneError == [kind |-> "exc", cls |-> "TypeError", by |-> 0]

\* wait_time = initial_wait; last_exception = None; the loop is entered.
RbInit ==
    /\ variant \in {"bin", "examples"}
    /\ max_retries \in 0..MaxRetriesArg
    /\ initial_wait \in 1..MaxWaitArg
    /\ backoff_factor \in 1..MaxFactorArg
    /\ wait_time = initial_wait
    /\ last_exception = None
    /\ attempt = 0
    /\ rb_pc = "loop"
    /\ rb_outcome = None
    /\ calls = << >>
    /\ sleeps = << >>

\* One iteration of the loop in which func() returns: return func().
RbReturn ==
    /\ rb_pc = "loop"
    /\ RbFrame
    /\ attempt < max_retries
    /\ LET n == Len(calls) + 1 IN
       /\ calls' = Append(calls, [kind |-> "ok", value |-> n])
       /\ rb_outcome' = [kind |-> "return", value |-> n]
    /\ rb_pc' = "done"
    /\ UNCHANGED <<variant, max_retries, initial_wait, backoff_factor,
                   wait_time, last_exception, attempt, sleeps>>

\* One iteration in which func() raises an exception no handler retries:
\* it leaves the helper from this attempt.
RbPropagate ==
    /\ rb_pc = "loop"
    /\ RbFrame
    /\ attempt < max_retries
    /\ \E cls \in ExcClasses \ Retried(variant) :
         LET e == Exc(cls, Len(calls) + 1) IN
         /\ calls' = Append(calls, e)
         /\ rb_outcome' = [kind |-> "raise", exc |-> e]
    /\ rb_pc' = "done"
    /\ UNCHANGED <<variant, max_retries, initial_wait, backoff_factor,
                   wait_time, last_exception, attempt, sleeps>>

\* RbCatch with the wait multiplied before the sleep instead of after it.
RbCatchMultiplyFirst ==
    /\ rb_pc = "loop"
    /\ RbFrame
    /\ attempt < max_retries
    /\ \E cls \in Retried(variant) :
         LET e == Exc(cls, Len(calls) + 1) IN
         /\ calls' = Append(calls, e)
         /\ last_exception' = e
    /\ IF attempt < max_retries - 1
         THEN /\ sleeps' = Append(sleeps, wait_time * backoff_factor)
              /\ wait_time' = wait_time * backoff_factor
         ELSE UNCHANGED <<sleeps, wait_time>>
    /\ attempt' = attempt + 1
    /\ UNCHANGED <<variant, max_retries, initial_wait, backoff_factor,
                   rb_pc, rb_outcome>>

\* RbCatch sleeping after every failed attempt, the last one included.
RbCatchAlwaysSleep ==
    /\ rb_pc = "loop"
    /\ RbFrame
    /\ attempt < max_retries
    /\ \E cls \in Retried(variant) :
         LET e == Exc(cls, Len(calls) + 1) IN
         /\ calls' = Append(calls, e)
         /\ last_exception' = e
    /\ sleeps' = Append(sleeps, wait_time)
    /\ wait_time' = wait_time * backoff_factor
    /\ attempt' = attempt + 1
    /\ UNCHANGED <<variant, max_retries, initial_wait, backoff_factor,
                   rb_pc, rb_outcome>>

\* One iteration in which func() raises an exception the handler catches:
\* it is remembered, and unless this was the last attempt the helper sleeps
\* wait_time and multiplies it by backoff_factor.
RbCatch ==
    /\ rb_pc = "loop"
    /\ RbFrame
    /\ attempt < max_retries
    /\ \E cls \in Retried(variant) :
         LET e == Exc(cls, Len(calls) + 1) IN
         /\ calls' = Append(calls, e)
         /\ last_exception' = e
    /\ IF attempt < max_retries - 1
         THEN /\ sleeps' = Append(sleeps, wait_time)
              /\ wait_time' = wait_time * backoff_factor
         ELSE UNCHANGED <<sleeps, wait_time>>
    /\ attempt' = attempt + 1
    /\ UNCHANGED <<variant, max_retries, initial_wait, backoff_factor,
                   rb_pc, rb_outcome>>

\* The loop is over: raise last_exception (raise None is a TypeError).
RbExhausted ==
    /\ rb_pc = "loop"
    /\ RbFrame
    /\ attempt >= max_retries
    /\ rb_outcome' = [kind |-> "raise",
                      exc |-> IF last_exception = None THEN RaiseNoneError
                              ELSE last_exception]
    /\ rb_pc' = "done"
    /\ UNCHANGED <<variant, max_retries, initial_wait, backoff_factor,
                   wait_time, last_exception, attempt, calls, sleeps>>

RbNext == RbReturn \/ RbPropagate \/ RbCatch \/ RbExhausted

\* The helper has not been called.
RbIdle ==
    /\ variant = "bin"
    /\ max_retries = 0
    /\ initial_wait = 0
    /\ backoff_factor = 0
    /\ wait_time = 0
    /\ last_exception = None
    /\ attempt = 0
    /\ rb_pc = "idle"
    /\ rb_outcome = None
    /\ calls = << >>
    /\ sleeps = << >>

(***************************************************************************)
(* export_wanted_albums: the pagination loop and what follows it           *)
(***************************************************************************)

\* page_size = 100
page_size == 100

\* The number of records a page of the server may hold.
PageLens == {0, 37, page_size}

\* The totalRecords a page of the server may announce.
TotalRecordsValues == {0, 237, 300}

\* The records of a page: n distinct records, tagged with the page number.
PageRecords(p, n) == [i \in 1..n |-> <<p, i>>]

\* What client.get_wanted may raise: the transport errors of _request.
TransportErrors ==
    {"requests.ConnectionError", "requests.Timeout", "requests.HTTPError",
     "requests.RetryError"}

\* except (OSError, json.JSONDecodeError, csv.Error, RuntimeError, KeyError)
ExportHandled ==
    {"OSError", "json.JSONDecodeError", "csv.Error", "RuntimeError", "KeyError"}

\* print("Fetching wanted albums..."); all_wanted = []; page = 1
PgInit ==
    /\ output_file \in {None, [kind |-> "path"]}
    /\ format_type \in {"json", "csv", "xml"}
    /\ all_wanted = << >>
    /\ page = 1
    /\ pg_pc = "loop"
    /\ pg_outcome = None
    /\ requested = << >>
    /\ served = << >>
    /\ written = None
    /\ stderr_log = <<"Fetching wanted albums...">>

\* An exception e raised inside the try block: the handler of
\* export_wanted_albums prints it and the function returns, or, when the
\* handler does not catch its class, the exception leaves the function.
PgRaise(e) ==
    IF Catches(ExportHandled, e)
      THEN /\ stderr_log' = Append(stderr_log, "Error exporting wanted albums")
           /\ pg_outcome' = [kind |-> "return"]
      ELSE /\ pg_outcome' = [kind |-> "raise", exc |-> e]
           /\ UNCHANGED stderr_log

\* PgLoopBody putting the new records in front of the accumulated ones.
PgLoopBodyPrepend(records) ==
    IF records = << >>
      THEN /\ pg_pc' = "output"
           /\ UNCHANGED <<all_wanted, page>>
      ELSE /\ all_wanted' = records \o all_wanted
           /\ IF Len(records) < page_size
                THEN pg_pc' = "output" /\ UNCHANGED page
                ELSE pg_pc' = "loop" /\ page' = page + 1

\* PgLoopBody going on to the page after the next one.
PgLoopBodySkipPage(records) ==
    IF records = << >>
      THEN /\ pg_pc' = "output"
           /\ UNCHANGED <<all_wanted, page>>
      ELSE /\ all_wanted' = all_wanted \o records
           /\ IF Len(records) < page_size
                THEN pg_pc' = "output" /\ UNCHANGED page
                ELSE pg_pc' = "loop" /\ page' = page + 2

\* The body of the loop for the records of one page.
PgLoopBody(records) ==
    IF records = << >>
      THEN /\ pg_pc' = "output"
           /\ UNCHANGED <<all_wanted, page>>
      ELSE /\ all_wanted' = all_wanted \o records
           /\ IF Len(records) < page_size
                THEN pg_pc' = "output" /\ UNCHANGED page
                ELSE pg_pc' = "loop" /\ page' = page + 1

\* PgFetchPage with the loop bounded by totalRecords: it stops as soon as
\* that many records have been accumulated.
PgFetchPageByTotal ==
    /\ pg_pc = "loop"
    /\ PgFrame
    /\ page <= MaxPages
    /\ \E n \in PageLens, total \in TotalRecordsValues :
         LET result == [kind |-> "page", records |-> PageRecords(page, n),
                        totalRecords |-> total]
         IN /\ served' = Append(served, result)
            /\ all_wanted' = all_wanted \o result.records
            /\ IF Len(all_wanted) + n >= total
                 THEN pg_pc' = "output" /\ UNCHANGED page
                 ELSE pg_pc' = "loop" /\ page' = page + 1
    /\ requested' = Append(requested, <<page, page_size>>)
    /\ UNCHANGED <<output_file, format_type, pg_outcome, written, stderr_log>>

\* One iteration: get_wanted returns a page with a records list.
PgFetchPage ==
    /\ pg_pc = "loop"
    /\ PgFrame
    /\ page <= MaxPages
    /\ \E n \in PageLens, total \in TotalRecordsValues :
         LET result == [kind |-> "page", records |-> PageRecords(page, n),
                        totalRecords |-> total]
         IN /\ served' = Append(served, result)
            /\ PgLoopBody(result.records)
    /\ requested' = Append(requested, <<page, page_size>>)
    /\ UNCHANGED <<output_file, format_type, pg_outcome, written, stderr_log>>

\* One iteration: get_wanted returns a map without 'records';
\* result.get('records', []) is then the empty list.
PgFetchNoRecordsKey ==
    /\ pg_pc = "loop"
    /\ PgFrame
    /\ page <= MaxPages
    /\ \E total \in TotalRecordsValues :
         /\ served' = Append(served, [kind |-> "nokey", totalRecords |-> total])
         /\ PgLoopBody(<< >>)
    /\ requested' = Append(requested, <<page, page_size>>)
    /\ UNCHANGED <<output_file, format_type, pg_outcome, written, stderr_log>>

\* One iteration: get_wanted returns None (a success with an empty body);
\* result.get raises AttributeError.
PgFetchNone ==
    /\ pg_pc = "loop"
    /\ PgFrame
    /\ page <= MaxPages
    /\ served' = Append(served, None)
    /\ requested' = Append(requested, <<page, page_size>>)
    /\ PgRaise("AttributeError")
    /\ pg_pc' = "done"
    /\ UNCHANGED <<output_file, format_type, all_wanted, page, written>>

\* One iteration: get_wanted raises a transport error.
PgFetchFails ==
    /\ pg_pc = "loop"
    /\ PgFrame
    /\ page <= MaxPages
    /\ requested' = Append(requested, <<page, page_size>>)
    /\ \E e \in TransportErrors :
         /\ served' = Append(served, [kind |-> "exc", cls |-> e])
         /\ PgRaise(e)
    /\ pg_pc' = "done"
    /\ UNCHANGED <<output_file, format_type, all_wanted, page, written>>

\* After the loop: the records are dumped as JSON, written as CSV rows (only
\* when there are any), or, for another format_type, not written at all;
\* then the summary is printed.
PgOutput ==
    /\ pg_pc = "output"
    /\ PgFrame
    /\ written' =
         CASE format_type = "json" ->
                [to |-> output_file, format |-> "json", rows |-> all_wanted]
           [] format_type = "csv" /\ all_wanted # << >> ->
                [to |-> output_file, format |-> "csv", rows |-> all_wanted]
           [] OTHER -> None
    /\ stderr_log' = Append(stderr_log, "Exported")
    /\ pg_outcome' = [kind |-> "return"]
    /\ pg_pc' = "done"
    /\ UNCHANGED <<output_file, format_type, all_wanted, page, requested, served>>

\* After the loop: opening or writing the output file raises OSError.
PgOutputFails ==
    /\ pg_pc = "output"
    /\ PgFrame
    /\ output_file # None
    /\ format_type \in {"json", "csv"}
    /\ PgRaise("OSError")
    /\ pg_pc' = "done"
    /\ UNCHANGED <<output_file, format_type, all_wanted, page, requested,
                   served, written>>

PgNext ==
    \/ PgFetchPage
    \/ PgFetchNoRecordsKey
    \/ PgFetchNone
    \/ PgFetchFails
    \/ PgOutput
    \/ PgOutputFails

\* export_wanted_albums has not been called.
PgIdle ==
    /\ output_file = None
    /\ format_type = "json"
    /\ all_wanted = << >>
    /\ page = 1
    /\ pg_pc = "idle"
    /\ pg_outcome = None
    /\ requested = << >>
    /\ served = << >>
    /\ written = None
    /\ stderr_log = << >>

(***************************************************************************)
(* LidarrClient: __init__, _request and the retrying session               *)
(***************************************************************************)

Clients == {"c1", "c2"}

\* An operation of LidarrClient: the method and the keyword arguments it
\* passes to _request (of the keyword arguments, a set of <<key, value>>,
\* only the timeout is kept).  by_caller tells whether the keyword
\* arguments are the caller's own.
Operation(name, method, kwargs, by_caller) ==
    [name |-> name, method |-> method, kwargs |-> kwargs,
     by_caller |-> by_caller]

\* return self._request('GET', 'system/status')
get_system_status == Operation("get_system_status", "GET", {}, FALSE)

\* return self._request('POST', 'artist', json=artist_data)
add_artist == Operation("add_artist", "POST", {}, FALSE)

\* return self._request('DELETE', f'trackfile/{track_file_id}')
delete_track_file == Operation("delete_track_file", "DELETE", {}, FALSE)

\* return self._request('GET', 'wanted/missing', params=params, timeout=60)
get_wanted == Operation("get_wanted", "GET", {<<"timeout", 60>>}, FALSE)

\* return self._request('GET', 'blocklist', params=params, timeout=60)
get_blocklist == Operation("get_blocklist", "GET", {<<"timeout", 60>>}, FALSE)

\* A caller's own self._request('GET', endpoint, timeout=t).
RequestWithTimeout(t) == Operation("_request", "GET", {<<"timeout", t>>}, TRUE)

\* kwargs.get('timeout', self.timeout)
KwargsTimeout(kwargs, self_timeout) ==
    IF \E kv \in kwargs : kv[1] = "timeout"
      THEN (CHOOSE kv \in kwargs : kv[1] = "timeout")[2]
      ELSE self_timeout

\* status_forcelist without 503.
status_forcelist_no_503 == {429, 500, 502, 504}

\* Retry(status_forcelist = [429, 500, 502, 503, 504])
status_forcelist == {429, 500, 502, 503, 504}

\* urllib3's default for allowed_methods, which leaves POST out.
allowed_methods_default == {"HEAD", "GET", "PUT", "DELETE", "OPTIONS", "TRACE"}

\* Retry(allowed_methods = [...])
allowed_methods == {"HEAD", "GET", "PUT", "DELETE", "OPTIONS", "TRACE", "POST"}

\* Retry.RETRY_AFTER_STATUS_CODES, in force since respect_retry_after_header
\* keeps its default.
RETRY_AFTER_STATUS_CODES == {413, 429, 503}

\* The final statuses a server may answer with.  A redirect that carries a
\* Location is followed inside session.request and is not a final status;
\* 304 is a 3xx status that is final.
Statuses == {200, 204, 304, 400, 401, 404, 413, 429, 500, 502, 503, 504}

\* The responses of the server: a status, and whether a Retry-After header
\* comes with it.
Responses ==
    {[status |-> st, retry_after |-> FALSE] : st \in Statuses}
    \cup {[status |-> st, retry_after |-> TRUE] : st \in {404, 413}}

\* The body of a response: empty, a JSON document, or bytes that are no JSON.
BodyKinds == {"empty", "json", "garbage"}

\* The bodies a response may carry: an error response of the server carries
\* a JSON document describing the error, a 204 or a 304 carries no body.
BodiesFor(resp, bodies) ==
    CASE 400 <= resp.status -> {"json"}
      [] resp.status \in {204, 304} -> {"empty"}
      [] OTHER -> bodies

\* What an attempt ends with when a response arrives.
Received(resp, body) ==
    [kind |-> "response", status |-> resp.status,
     retry_after |-> resp.retry_after, body |-> body]

\* The ways an attempt gets no response: the connection is refused, or it
\* is not established within the timeout.
Failures == {"refused", "connect_timeout"}

\* What an attempt ends with when no response arrives.
ConnFailure(failure) ==
    [kind |-> "connfail", status |-> 0, retry_after |-> FALSE, body |-> "empty",
     failure |-> failure]

\* The exception of requests for a request whose last attempt got no
\* response (HTTPAdapter.send on urllib3's MaxRetryError).
ConnFailureError(failure) ==
    IF failure = "connect_timeout" THEN "requests.ConnectTimeout"
    ELSE "requests.ConnectionError"

\* IsRetry retrying every error status.
IsRetryAnyError(method, status, has_retry_after, total) ==
    /\ method \in allowed_methods
    /\ status >= 400

\* Retry.is_retry(method, status_code, has_retry_after) on a Retry object
\* with `total` retries left.
IsRetry(method, status, has_retry_after, total) ==
    /\ method \in allowed_methods
    /\ \/ status \in status_forcelist
       \/ /\ total # 0
          /\ has_retry_after
          /\ status \in RETRY_AFTER_STATUS_CODES

\* Retry.is_exhausted() with the test off by one.
IsExhaustedAtZero(total) == total <= 0

\* Retry.is_exhausted() on the Retry object that increment() built.
IsExhausted(total) == total < 0

\* raise_for_status raising for the server errors only.
RaisesForStatusServerOnly(status) == 500 <= status /\ status < 600

\* response.raise_for_status() raises HTTPError.
RaisesForStatus(status) == 400 <= status /\ status < 600

\* Decoded with the decoder applied to an empty body as well.
DecodedEmptyRaises(body, n) ==
    CASE body = "json" -> [kind |-> "return", value |-> [kind |-> "json", of |-> n]]
      [] OTHER -> [kind |-> "raise", exc |-> "requests.JSONDecodeError"]

\* response.json() if response.content else None, for the response of
\* attempt number n: the JSON document of attempt n decodes to a value of
\* its own.
Decoded(body, n) ==
    CASE body = "empty" -> [kind |-> "return", value |-> None]
      [] body = "json" -> [kind |-> "return", value |-> [kind |-> "json", of |-> n]]
      [] OTHER -> [kind |-> "raise", exc |-> "requests.JSONDecodeError"]

\* The surroundings in which the retries are observed: the server answers
\* with any response and body, over a short time.
RetryEnv ==
    [responses |-> Responses, bodies |-> BodyKinds, rate_limits |-> {1},
     until |-> Epoch + RetryHorizon, calls |-> RetryCalls,
     ops |-> {get_system_status, add_artist}, timeouts |-> {60},
     retry_totals |-> 0..MaxRetryTotal]

\* The surroundings in which the timing is observed: the server answers with
\* a success, an error that is not retried or one that is, over a longer time.
TimingEnv ==
    [responses |-> {r \in Responses : r.status \in {200, 404, 503} /\ ~r.retry_after},
     bodies |-> {"json"}, rate_limits |-> 1..MaxRateLimit,
     until |-> Epoch + Horizon, calls |-> MaxCalls,
     ops |-> {get_system_status, add_artist}, timeouts |-> {60},
     retry_totals |-> 0..MaxRetryTotal]

\* The surroundings in which the timeouts are observed: clients configured
\* with different timeouts, every kind of operation, a server that answers.
TimeoutEnv ==
    [responses |-> {r \in Responses : r.status \in {200, 404} /\ ~r.retry_after},
     bodies |-> {"json"}, rate_limits |-> {1},
     until |-> Epoch + RetryHorizon, calls |-> RetryCalls,
     ops |-> {get_system_status, delete_track_file, get_wanted, get_blocklist,
              RequestWithTimeout(5)},
     timeouts |-> {30 * k : k \in 1..MaxTimeoutArg},
     retry_totals |-> {0, 1}]

\* The surroundings in which two clients are observed side by side.
TwoEnv ==
    [responses |-> {r \in Responses : r.status \in {200, 404} /\ ~r.retry_after},
     bodies |-> {"json"}, rate_limits |-> 1..MaxRateLimit,
     until |-> Epoch + TwoHorizon, calls |-> TwoCalls,
     ops |-> {get_system_status}, timeouts |-> {60}, retry_totals |-> {0}]

\* LidarrClient.__init__: timeout, rate_limit = 1 / rate_limit_per_second,
\* last_request_time = 0, a session whose adapter retries retry_total times.
GwInit(cs, e) ==
    /\ instances = cs
    /\ env = e
    /\ cfg \in [cs -> [rate_limit : e.rate_limits, retry_total : e.retry_totals,
                       timeout : e.timeouts]]
    /\ last_request_time = [c \in cs |-> 0]
    /\ now = Epoch
    /\ gw_pc = [c \in cs |-> "idle"]
    /\ call = [c \in cs |-> None]
    /\ gw_outcome = [c \in cs |-> None]
    /\ hist = [c \in cs |-> [started |-> 0, first_start |-> 0]]

\* Time passes.
Tick ==
    /\ GwFrame
    /\ now < env.until
    /\ now' = now + 1
    /\ UNCHANGED <<instances, cfg, last_request_time, gw_pc, call, gw_outcome,
                   hist, env>>

\* An operation op of client c calls _request.  Up to the request: the
\* rate-limit check against last_request_time, then either
\* time.sleep(sleep_time) or the request, which goes out with the timeout of
\* the keyword arguments or else self.timeout.
GwBegin(c, op) ==
    /\ GwFrame
    /\ gw_pc[c] = "idle"
    /\ hist[c].started < env.calls
    /\ LET time_since_last_request == now - last_request_time[c]
           sleep_time == cfg[c].rate_limit - time_since_last_request
           request(wake) ==
               [op |-> op, method |-> op.method, wake |-> wake,
                timeout |-> KwargsTimeout(op.kwargs, cfg[c].timeout),
                total |-> cfg[c].retry_total, log |-> << >>]
       IN IF time_since_last_request < cfg[c].rate_limit
            THEN /\ gw_pc' = [gw_pc EXCEPT ![c] = "sleeping"]
                 /\ call' = [call EXCEPT ![c] = request(now + sleep_time)]
            ELSE /\ gw_pc' = [gw_pc EXCEPT ![c] = "sending"]
                 /\ call' = [call EXCEPT ![c] = request(now)]
    /\ gw_outcome' = [gw_outcome EXCEPT ![c] = None]
    /\ hist' = [hist EXCEPT ![c] =
                  [started |-> @.started + 1,
                   first_start |-> IF @.started = 0 THEN now ELSE @.first_start]]
    /\ UNCHANGED <<instances, cfg, last_request_time, now, env>>

\* time.sleep(sleep_time) returns: at least sleep_time has passed.
GwWake(c) ==
    /\ GwFrame
    /\ gw_pc[c] = "sleeping"
    /\ now >= call[c].wake
    /\ gw_pc' = [gw_pc EXCEPT ![c] = "sending"]
    /\ UNCHANGED <<instances, cfg, last_request_time, now, call, gw_outcome,
                   hist, env>>

\* GwRaise with last_request_time set by the failed call as well.
GwRaiseStamped(c, entry, exc) ==
    /\ call' = [call EXCEPT ![c].log = Append(@, entry)]
    /\ gw_outcome' = [gw_outcome EXCEPT ![c] = [kind |-> "raise", exc |-> exc]]
    /\ gw_pc' = [gw_pc EXCEPT ![c] = "idle"]
    /\ last_request_time' = [last_request_time EXCEPT ![c] = now]

\* The call of client c ends by raising exc.  last_request_time is left alone.
GwRaise(c, entry, exc) ==
    /\ call' = [call EXCEPT ![c].log = Append(@, entry)]
    /\ gw_outcome' = [gw_outcome EXCEPT ![c] = [kind |-> "raise", exc |-> exc]]
    /\ gw_pc' = [gw_pc EXCEPT ![c] = "idle"]
    /\ UNCHANGED last_request_time

\* The adapter issues the request again: one retry less is left.
GwRetry(c, entry) ==
    /\ call' = [call EXCEPT ![c].log = Append(@, entry), ![c].total = @ - 1]
    /\ UNCHANGED <<gw_pc, gw_outcome, last_request_time>>

\* GwRespond leaving last_request_time alone after a success.
GwRespondNoStamp(c, resp, body) ==
    /\ GwFrame
    /\ gw_pc[c] = "sending"
    /\ LET entry == Received(resp, body) IN
       IF IsRetry(call[c].method, resp.status, resp.retry_after, call[c].total)
         THEN IF IsExhausted(call[c].total - 1)
                THEN GwRaise(c, entry, "requests.RetryError")
                ELSE GwRetry(c, entry)
         ELSE IF RaisesForStatus(resp.status)
                THEN GwRaise(c, entry, "requests.HTTPError")
                ELSE /\ call' = [call EXCEPT ![c].log = Append(@, entry)]
                     /\ UNCHANGED last_request_time
                     /\ gw_outcome' =
                          [gw_outcome EXCEPT ![c] = Decoded(body, Len(call[c].log) + 1)]
                     /\ gw_pc' = [gw_pc EXCEPT ![c] = "idle"]
    /\ UNCHANGED <<instances, cfg, now, hist, env>>

\* GwRespond with last_request_time kept in one place for all the clients.
GwRespondSharedStamp(c, resp, body) ==
    /\ GwFrame
    /\ gw_pc[c] = "sending"
    /\ LET entry == Received(resp, body) IN
       IF IsRetry(call[c].method, resp.status, resp.retry_after, call[c].total)
         THEN IF IsExhausted(call[c].total - 1)
                THEN GwRaise(c, entry, "requests.RetryError")
                ELSE GwRetry(c, entry)
         ELSE IF RaisesForStatus(resp.status)
                THEN GwRaise(c, entry, "requests.HTTPError")
                ELSE /\ call' = [call EXCEPT ![c].log = Append(@, entry)]
                     /\ last_request_time' = [d \in instances |-> now]
                     /\ gw_outcome' =
                          [gw_outcome EXCEPT ![c] = Decoded(body, Len(call[c].log) + 1)]
                     /\ gw_pc' = [gw_pc EXCEPT ![c] = "idle"]
    /\ UNCHANGED <<instances, cfg, now, hist, env>>

\* An attempt of session.request is answered by resp with a body of kind
\* body.  A status the Retry object retries is retried while retries are
\* left and raises RetryError (raise_on_status) when none is; any other
\* response goes back to _request: raise_for_status, then last_request_time
\* = time.time(), then the body is decoded.
GwRespond(c, resp, body) ==
    /\ GwFrame
    /\ gw_pc[c] = "sending"
    /\ LET entry == Received(resp, body) IN
       IF IsRetry(call[c].method, resp.status, resp.retry_after, call[c].total)
         THEN IF IsExhausted(call[c].total - 1)
                THEN GwRaise(c, entry, "requests.RetryError")
                ELSE GwRetry(c, entry)
         ELSE IF RaisesForStatus(resp.status)
                THEN GwRaise(c, entry, "requests.HTTPError")
                ELSE /\ call' = [call EXCEPT ![c].log = Append(@, entry)]
                     /\ last_request_time' = [last_request_time EXCEPT ![c] = now]
                     /\ gw_outcome' =
                          [gw_outcome EXCEPT ![c] = Decoded(body, Len(call[c].log) + 1)]
                     /\ gw_pc' = [gw_pc EXCEPT ![c] = "idle"]
    /\ UNCHANGED <<instances, cfg, now, hist, env>>

\* An attempt of session.request gets no response (connection refused, a
\* timeout): it is retried while retries are left, and raises
\* requests' ConnectionError, or its subclass ConnectTimeout, when none is.
GwConnFail(c, failure) ==
    /\ GwFrame
    /\ gw_pc[c] = "sending"
    /\ IF IsExhausted(call[c].total - 1)
         THEN GwRaise(c, ConnFailure(failure), ConnFailureError(failure))
         ELSE GwRetry(c, ConnFailure(failure))
    /\ UNCHANGED <<instances, cfg, now, hist, env>>

GwNext ==
    \/ Tick
    \/ \E c \in instances, op \in env.ops : GwBegin(c, op)
    \/ \E c \in instances : GwWake(c)
    \/ \E c \in instances, resp \in env.responses :
         \E body \in BodiesFor(resp, env.bodies) : GwRespond(c, resp, body)
    \/ \E c \in instances, failure \in Failures : GwConnFail(c, failure)

\* No client has been constructed.
GwIdle ==
    /\ instances = {}
    /\ cfg = << >>
    /\ last_request_time = << >>
    /\ now = Epoch
    /\ gw_pc = << >>
    /\ call = << >>
    /\ gw_outcome = << >>
    /\ hist = << >>
    /\ env = None

(***************************************************************************)
(* Config: the settings kept in a JSON file                                *)
(***************************************************************************)

\* A Python str, as the sequence of its characters.
Str(chars) == [kind |-> "str", chars |-> chars]

\* What stands for a key that a dict does not have.
Missing == [kind |-> "missing"]

\* Truthy with only None false, the empty string true.
TruthyUnlessNone(v) == v.kind = "str"

\* The truth value of an optional str: None and "" are false.  dict.get
\* gives None for a key the dict does not have.
Truthy(v) == v.kind = "str" /\ v.chars # << >>

\* n slashes.
Slashes(n) == [i \in 1..n |-> "/"]

\* The URLs given to save_connection_settings: a host followed by slashes,
\* and a host and a path.
Urls ==
    {<<"h">> \o Slashes(n) : n \in 0..MaxSlashes} \cup {<<"h", "/", "p">>}

\* The API keys given on the command line or to save_connection_settings.
ApiKeys == {Str(<<"k">>), Str(<<"q">>)}

\* rstrip removing one slash only.
RStripSlashOnce(chars) ==
    IF chars # << >> /\ chars[Len(chars)] = "/"
      THEN SubSeq(chars, 1, Len(chars) - 1)
      ELSE chars

\* str.rstrip('/')
RECURSIVE RStripSlash(_)
RStripSlash(chars) ==
    IF chars # << >> /\ chars[Len(chars)] = "/"
      THEN RStripSlash(SubSeq(chars, 1, Len(chars) - 1))
      ELSE chars

\* The 'connection' section of the settings: a dict whose keys base_url and
\* api_key each hold a str or are Missing.
Section(base_url, api_key) == [base_url |-> base_url, api_key |-> api_key]

\* The settings: a dict, of which the 'connection' section is kept.
Settings(connection) == [connection |-> connection]

\* {}
EmptySettings == Settings(Missing)

\* The truth value of a connection section: None and {} are false.
TruthySection(section) ==
    /\ section # None
    /\ section # Missing
    /\ section # Section(Missing, Missing)

\* self.settings.get('connection')
GetConnection(settings) ==
    IF settings.connection = Missing THEN None ELSE settings.connection

\* The file at config_path: absent, holding bytes that are no JSON, or
\* holding the JSON document of a settings dict.
NoFile == [kind |-> "absent"]
GarbageFile == [kind |-> "garbage"]
JsonFile(settings) == [kind |-> "json", doc |-> settings]

\* Config.load: {} when the file does not exist or json.load raises.
Load(file) == IF file.kind = "json" THEN file.doc ELSE EmptySettings

\* json.dump(self.settings, f, indent=2)
Dump(settings) == JsonFile(settings)

\* The paths a Config is given: the default one, and a bare file name.
ConfigPaths == {"~/.config/lidarr-api/defaults.json", "defaults.json"}

\* os.path.dirname(self.config_path)
Dirname(path) == IF path = "defaults.json" THEN "" ELSE "~/.config/lidarr-api"

\* The exception Config.save raises, "" when it returns: os.makedirs('')
\* raises FileNotFoundError, and the file system may refuse the directory or
\* the file.
SaveRaises(path, refused) ==
    CASE Dirname(path) = "" -> "FileNotFoundError"
      [] refused -> "PermissionError"
      [] OTHER -> ""

\* The Config objects of the model.
ConfigObjs == {"first", "second"}

\* The files found at config_path when the model starts.
InitialFiles ==
    {NoFile, GarbageFile, JsonFile(EmptySettings),
     JsonFile(Settings(Section(Str(<<"h">>), Str(<<"k">>))))}

CfInit ==
    /\ config_path \in ConfigPaths
    /\ disk \in InitialFiles
    /\ configs = [o \in ConfigObjs |-> None]
    /\ cf_last = None
    /\ cf_saved = [o \in ConfigObjs |-> None]
    /\ cf_written = None
    /\ cf_loaded = [o \in ConfigObjs |-> None]

\* Config(config_path): self.settings = self.load()
CfNew(o) ==
    /\ CfFrame
    /\ configs[o] = None
    /\ configs' = [configs EXCEPT ![o] = Load(disk)]
    /\ cf_last' = [op |-> "Config", obj |-> o, found |-> disk.kind,
                   result |-> Load(disk)]
    /\ cf_loaded' = [cf_loaded EXCEPT ![o] = cf_written]
    /\ UNCHANGED <<config_path, disk, cf_saved, cf_written>>

\* Config.save_connection_settings(base_url, api_key) on object o: the
\* settings get the section, with the URL stripped, and are saved.
SaveConnectionSettings(o, base_url, api_key, refused) ==
    LET settings ==
            \* self.settings['connection'] = {...}: the one section kept
            Settings(Section(Str(RStripSlash(base_url)), api_key))
        raised == SaveRaises(config_path, refused)
        given == [base_url |-> base_url, api_key |-> api_key]
    IN /\ configs' = [configs EXCEPT ![o] = settings]
       /\ cf_last' = [op |-> "save_connection_settings", obj |-> o,
                      raised |-> raised]
       /\ IF raised = ""
            THEN /\ disk' = Dump(settings)
                 /\ cf_written' = given
                 /\ cf_saved' = [cf_saved EXCEPT ![o] = given]
                 /\ UNCHANGED cf_loaded
            ELSE /\ cf_saved' = [cf_saved EXCEPT ![o] = None]
                 /\ cf_loaded' = [cf_loaded EXCEPT ![o] = None]
                 /\ UNCHANGED <<disk, cf_written>>
       /\ UNCHANGED config_path

CfSaveConnectionSettings(o, base_url, api_key, refused) ==
    /\ CfFrame
    /\ configs[o] # None
    /\ SaveConnectionSettings(o, base_url, api_key, refused)

\* Config.get_connection_settings() on object o.
CfGetConnectionSettings(o) ==
    /\ CfFrame
    /\ configs[o] # None
    /\ cf_last' = [op |-> "get_connection_settings", obj |-> o,
                   result |-> GetConnection(configs[o])]
    /\ UNCHANGED <<config_path, disk, configs, cf_saved, cf_written, cf_loaded>>

CfNext ==
    \/ \E o \in ConfigObjs : CfNew(o)
    \/ \E o \in ConfigObjs, u \in Urls, k \in ApiKeys, refused \in BOOLEAN :
         CfSaveConnectionSettings(o, u, k, refused)
    \/ \E o \in ConfigObjs : CfGetConnectionSettings(o)

\* No Config has been constructed.
CfIdle ==
    /\ config_path = "defaults.json"
    /\ disk = NoFile
    /\ configs = << >>
    /\ cf_last = None
    /\ cf_saved = << >>
    /\ cf_written = None
    /\ cf_loaded = << >>

(***************************************************************************)
(* The start of a command-line program: main of bin/lidarr_search.py up to *)
(* its first request, and setup_client of lidarr_api/data_utils.py         *)
(***************************************************************************)

\* a or b
Or(a, b) == IF Truthy(a) THEN a ELSE b

\* 'http://localhost:8686'
DefaultBaseUrl == Str(<<"l">>)

\* The parsed command lines: --url and --api-key given or not, --api-key
\* possibly given empty, --save-connection given or not.
CommandLines ==
    [url : {None, Str(<<"h", "/">>)},
     api_key : {None, Str(<< >>), Str(<<"k">>)},
     save_connection : BOOLEAN]

\* The files found at config_path when a program starts: those of
\* InitialFiles, and files whose connection section is empty, has no
\* api_key, or has an empty one.
StartupFiles ==
    InitialFiles \cup
    {JsonFile(Settings(Section(Missing, Missing))),
     JsonFile(Settings(Section(Str(<<"h">>), Missing))),
     JsonFile(Settings(Section(Str(<<"h">>), Str(<< >>))))}

\* LidarrClient(base_url, api_key, ...): the object __init__ leaves.
NewLidarrClient(base_url, api_key) ==
    [base_url |-> Str(RStripSlash(base_url.chars)), api_key |-> api_key]

StInit ==
    /\ st_prog \in {"lidarr_search", "data_utils"}
    /\ st_args \in CommandLines
    /\ st_pc = "start"
    /\ st_outcome = None
    /\ st_clients = << >>
    /\ st_requests = 0
    /\ config_path \in ConfigPaths
    /\ disk \in StartupFiles
    /\ configs = [o \in ConfigObjs |-> None]
    /\ cf_last = None
    /\ cf_saved = [o \in ConfigObjs |-> None]
    /\ cf_written = None
    /\ cf_loaded = [o \in ConfigObjs |-> None]

\* config = Config(args.config), inside a program.
StLoadConfig ==
    /\ configs' = [configs EXCEPT !["first"] = Load(disk)]
    /\ cf_last' = [op |-> "Config", obj |-> "first", found |-> disk.kind,
                   result |-> Load(disk)]
    /\ UNCHANGED <<config_path, disk, cf_saved, cf_written, cf_loaded>>

\* The program goes on with the client it constructed.
StConstructed(client) ==
    /\ st_clients' = Append(st_clients, client)
    /\ st_pc' = "client"
    /\ UNCHANGED <<st_outcome, st_requests>>

\* The program ends without a client.
StEnds(outcome) ==
    /\ st_outcome' = outcome
    /\ st_pc' = "done"
    /\ UNCHANGED <<st_clients, st_requests>>

\* main of bin/lidarr_search.py, from the loading of the config to the
\* construction of the client.
StLidarrSearchMain(refused) ==
    /\ StFrame
    /\ st_prog = "lidarr_search"
    /\ st_pc = "start"
    /\ LET saved == GetConnection(Load(disk))
           connection == IF TruthySection(saved) THEN saved
                         ELSE Section(Missing, Missing)
           base_url == Or(Or(st_args.url, connection.base_url), DefaultBaseUrl)
           api_key == Or(st_args.api_key, connection.api_key)
       IN IF ~Truthy(api_key)
            THEN /\ StLoadConfig
                 /\ StEnds([kind |-> "return", value |-> 1])
            ELSE IF /\ st_args.save_connection
                    /\ (Truthy(st_args.url) \/ Truthy(st_args.api_key))
              THEN /\ SaveConnectionSettings("first", base_url.chars, api_key,
                                             refused)
                   /\ IF SaveRaises(config_path, refused) # ""
                        THEN StEnds([kind |-> "raise",
                                     exc |-> SaveRaises(config_path, refused)])
                        ELSE StConstructed(NewLidarrClient(base_url, api_key))
              ELSE /\ StLoadConfig
                   /\ StConstructed(NewLidarrClient(base_url, api_key))
    /\ UNCHANGED <<st_prog, st_args>>

\* setup_client(args) of lidarr_api/data_utils.py.  LidarrClient(**settings)
\* raises TypeError when settings lacks base_url or api_key.
StSetupClient ==
    /\ StFrame
    /\ st_prog = "data_utils"
    /\ st_pc = "start"
    /\ IF Truthy(st_args.url) /\ Truthy(st_args.api_key)
         THEN /\ StConstructed(NewLidarrClient(st_args.url, st_args.api_key))
              /\ UNCHANGED cfVars
         ELSE LET settings == GetConnection(Load(disk)) IN
              /\ StLoadConfig
              /\ IF ~TruthySection(settings)
                   THEN StEnds([kind |-> "exit", status |-> 1])
                   ELSE IF settings.base_url = Missing \/ settings.api_key = Missing
                     THEN StEnds([kind |-> "raise", exc |-> "TypeError"])
                     ELSE StConstructed(
                              NewLidarrClient(settings.base_url, settings.api_key))
    /\ UNCHANGED <<st_prog, st_args>>

\* The program issues its first request through the client.
StFirstRequest ==
    /\ StFrame
    /\ st_pc = "client"
    /\ st_requests' = st_requests + 1
    /\ st_pc' = "done"
    /\ UNCHANGED <<st_prog, st_args, st_outcome, st_clients>>
    /\ UNCHANGED cfVars

StNext ==
    \/ \E refused \in BOOLEAN : StLidarrSearchMain(refused)
    \/ StSetupClient
    \/ StFirstRequest

\* No program has been started.
StIdle ==
    /\ st_prog = "lidarr_search"
    /\ st_args = None
    /\ st_pc = "idle"
    /\ st_outcome = None
    /\ st_clients = << >>
    /\ st_requests = 0

(***************************************************************************)
(* import_artists_from_json and import_tags_from_config                    *)
(***************************************************************************)

\* The operations of LidarrClient the two functions call.
get_all_artists == Operation("get_all_artists", "GET", {}, FALSE)
get_quality_profiles == Operation("get_quality_profiles", "GET", {}, FALSE)
get_metadata_profiles == Operation("get_metadata_profiles", "GET", {}, FALSE)
get_root_folders == Operation("get_root_folders", "GET", {}, FALSE)
get_tags == Operation("get_tags", "GET", {}, FALSE)
add_tag == Operation("add_tag", "POST", {}, FALSE)

\* The operations called before the loop, in order.
Preparation(fn) ==
    IF fn = "artists"
      THEN <<get_all_artists, get_quality_profiles, get_metadata_profiles,
             get_root_folders>>
      ELSE <<get_tags>>

\* The operation that adds an item, with the item it passes to _request
\* (json=artist_data, json={'label': label}).
AddOperation(fn, item) ==
    [IF fn = "artists" THEN add_artist ELSE add_tag
       EXCEPT !.kwargs = {<<"json", item>>}]

\* The foreignArtistId values of the artists get_all_artists() gives (the
\* labels of the tags get_tags() gives).
existing_ids == {"existing"}

\* The foreignArtistId (the label) of an item of the input: none ("blank"),
\* one the server has already, or one of two it has not.
ItemIds == {"blank", "new", "other"} \cup existing_ids

\* The lists of at most n items.
ItemLists(n) == UNION {[1..k -> ItemIds] : k \in 0..n}

\* What reading the input gives: an error (the file cannot be opened, or is
\* no JSON), a JSON document that is no list, or a list of items.
Inputs ==
    {[kind |-> "unreadable", items |-> << >>],
     [kind |-> "notalist", items |-> << >>]}
    \cup {[kind |-> "list", items |-> items] : items \in ItemLists(MaxItems)}

\* What the server may do with an operation: answer, or fail it with a
\* transport error (an OSError, which the handler of either function
\* catches); or the client raises one of the errors the loops catch.
CallResults == {"ok", "RequestException", "RuntimeError"}

\* the handlers around client.add_artist and client.add_tag
AddHandled(fn) ==
    IF fn = "artists" THEN {"RuntimeError", "KeyError", "TypeError"}
    ELSE {"RuntimeError", "KeyError"}

ImInit ==
    /\ im_fn \in {"artists", "tags"}
    /\ dry_run \in BOOLEAN
    /\ im_input \in {i \in Inputs : i.kind = "notalist" => im_fn = "artists"}
    /\ im_pc = "read"
    /\ im_idx = 0
    /\ added_count = 0
    /\ skipped_count = 0
    /\ error_count = 0
    /\ im_calls = << >>
    /\ im_out = << >>

\* The input is read and looked at, up to the first call of the client.
ImRead ==
    /\ ImFrame
    /\ im_pc = "read"
    /\ CASE im_input.kind = "unreadable" ->
              /\ im_out' = Append(im_out, "Error importing")
              /\ im_pc' = "done"
         [] im_input.kind = "notalist" ->
              /\ im_out' = Append(im_out, "Error: JSON file should contain a list")
              /\ im_pc' = "done"
         [] im_fn = "tags" /\ im_input.items = << >> ->
              /\ im_out' = Append(im_out, "No tags found")
              /\ im_pc' = "done"
         [] OTHER ->
              /\ im_pc' = "prepare"
              /\ UNCHANGED im_out
    /\ UNCHANGED <<im_fn, dry_run, im_input, im_idx, added_count,
                   skipped_count, error_count, im_calls>>

\* The calls before the loop: the first `made` of them are made, and the
\* last of those fails when `fails`; when all are answered, an empty list
\* of quality profiles or of root folders ends import_artists_from_json.
ImPrepare(made, fails, nothing_found) ==
    /\ ImFrame
    /\ im_pc = "prepare"
    /\ made \in 1..Len(Preparation(im_fn))
    /\ ~fails => made = Len(Preparation(im_fn))
    /\ im_calls' = im_calls \o SubSeq(Preparation(im_fn), 1, made)
    /\ IF fails
         THEN /\ im_out' = Append(im_out, "Error importing")
              /\ im_pc' = "done"
         ELSE IF nothing_found /\ im_fn = "artists"
           THEN /\ im_out' = Append(im_out, "Error: No quality profiles or root folders found")
                /\ im_pc' = "done"
           ELSE /\ im_pc' = "loop"
                /\ UNCHANGED im_out
    /\ UNCHANGED <<im_fn, dry_run, im_input, im_idx, added_count,
                   skipped_count, error_count>>

\* ImItem adding the new items whatever dry_run says.
ImItemIgnoringDryRun(result) ==
    /\ ImFrame
    /\ im_pc = "loop"
    /\ im_idx < Len(im_input.items)
    /\ LET item == im_input.items[im_idx + 1] IN
       CASE item = "blank" ->
              /\ im_idx' = im_idx + 1
              /\ UNCHANGED <<added_count, skipped_count, error_count, im_calls,
                             im_out, im_pc>>
         [] item \in existing_ids ->
              /\ im_idx' = im_idx + 1
              /\ skipped_count' = skipped_count + 1
              /\ im_out' = Append(im_out, "Skipping")
              /\ UNCHANGED <<added_count, error_count, im_calls, im_pc>>
         [] OTHER ->
              /\ im_calls' = Append(im_calls, AddOperation(im_fn, item))
              /\ im_idx' = im_idx + 1
              /\ added_count' = added_count + 1
              /\ im_out' = Append(im_out, "Added")
              /\ UNCHANGED <<skipped_count, error_count, im_pc>>
    /\ UNCHANGED <<im_fn, dry_run, im_input>>

\* One iteration of the loop.  An item without foreignArtistId or one whose
\* foreignArtistId is in existing_ids is skipped (an item without label is
\* passed over); any other is reported when dry_run, and added otherwise,
\* which may fail.  existing_ids is not changed by the loop.
ImItem(result) ==
    /\ ImFrame
    /\ im_pc = "loop"
    /\ im_idx < Len(im_input.items)
    /\ LET item == im_input.items[im_idx + 1] IN
       CASE item = "blank" /\ im_fn = "tags" ->
              /\ im_idx' = im_idx + 1
              /\ UNCHANGED <<added_count, skipped_count, error_count, im_calls,
                             im_out, im_pc>>
         [] item = "blank" \/ item \in existing_ids ->
              /\ im_idx' = im_idx + 1
              /\ skipped_count' = skipped_count + 1
              /\ im_out' = Append(im_out, "Skipping")
              /\ UNCHANGED <<added_count, error_count, im_calls, im_pc>>
         [] dry_run ->
              /\ im_idx' = im_idx + 1
              /\ added_count' = added_count + 1
              /\ im_out' = Append(im_out, "Would add")
              /\ UNCHANGED <<skipped_count, error_count, im_calls, im_pc>>
         [] OTHER ->
              /\ im_calls' = Append(im_calls, AddOperation(im_fn, item))
              /\ CASE result = "ok" ->
                        /\ im_idx' = im_idx + 1
                        /\ added_count' = added_count + 1
                        /\ im_out' = Append(im_out, "Added")
                        /\ UNCHANGED <<skipped_count, error_count, im_pc>>
                   [] Catches(AddHandled(im_fn), result) ->
                        /\ im_idx' = im_idx + 1
                        /\ error_count' = IF im_fn = "artists"
                                            THEN error_count + 1 ELSE error_count
                        /\ im_out' = Append(im_out, "Error adding")
                        /\ UNCHANGED <<added_count, skipped_count, im_pc>>
                   [] OTHER ->
                        /\ im_out' = Append(im_out, "Error importing")
                        /\ im_pc' = "done"
                        /\ UNCHANGED <<im_idx, added_count, skipped_count,
                                       error_count>>
    /\ UNCHANGED <<im_fn, dry_run, im_input>>

\* After the loop: the summary, and the notice of a dry run.
ImSummary ==
    /\ ImFrame
    /\ im_pc = "loop"
    /\ im_idx = Len(im_input.items)
    /\ im_out' = im_out \o <<IF dry_run THEN "Summary: Would add" ELSE "Summary: Added">>
                        \o (IF dry_run THEN <<"This was a dry run">> ELSE << >>)
    /\ im_pc' = "done"
    /\ UNCHANGED <<im_fn, dry_run, im_input, im_idx, added_count,
                   skipped_count, error_count, im_calls>>

ImNext ==
    \/ ImRead
    \/ \E made \in 1..Len(Preparation(im_fn)), fails \in BOOLEAN,
          nothing_found \in BOOLEAN :
         ImPrepare(made, fails, nothing_found)
    \/ \E result \in CallResults : ImItem(result)
    \/ ImSummary

\* Neither function has been called.
ImIdle ==
    /\ im_fn = "artists"
    /\ dry_run = FALSE
    /\ im_input = None
    /\ im_pc = "idle"
    /\ im_idx = 0
    /\ added_count = 0
    /\ skipped_count = 0
    /\ error_count = 0
    /\ im_calls = << >>
    /\ im_out = << >>

(***************************************************************************)
(* restore_backup, clear_blocklist (lidarr_api/system_maintenance.py),     *)
(* check_recent_history (scripts/monitoring.py), remove_queue_item         *)
(* (scripts/library_manager.py) and the client methods they call           *)
(***************************************************************************)

ScFunctions ==
    {"restore_backup", "clear_blocklist", "check_recent_history",
     "remove_queue_item"}

\* The characters an answer typed at the prompt is made of.
AnswerChars == {"y", "Y", "e", "E", "s", "S", "n", " "}

\* The lines input() may give: the strings of at most MaxAnswerLen characters.
Answers == UNION {[1..n -> AnswerChars] : n \in 0..MaxAnswerLen}

\* str.lower(), character by character.
Lower(chars) ==
    [i \in 1..Len(chars) |->
        CASE chars[i] = "Y" -> "y"
          [] chars[i] = "E" -> "e"
          [] chars[i] = "S" -> "s"
          [] OTHER -> chars[i]]

\* str.strip(): the white space at both ends is dropped.
RECURSIVE Strip(_)
Strip(chars) ==
    IF chars = << >> THEN << >>
    ELSE IF Head(chars) = " " THEN Strip(Tail(chars))
    ELSE IF chars[Len(chars)] = " "
           THEN Strip(SubSeq(chars, 1, Len(chars) - 1))
    ELSE chars

\* Every answer but a no confirms.
ConfirmedUnlessNo(answer) ==
    Strip(Lower(answer)) \notin {<<"n", "o">>, <<"n">>}

\* confirm = input(...).strip().lower(); confirm in ["yes", "y"]
Confirmed(answer) ==
    Lower(Strip(answer)) \in {<<"y", "e", "s">>, <<"y">>}

\* The hours check_recent_history is called with.
HoursValues == {1, 20, 24, 200, 300}

\* The queue items remove_queue_item is called with.
QueueIds == 1..MaxQueueId

\* The arguments of the four functions; those a function does not have are
\* left at a fixed value.
ScArgs(fn) ==
    [backup_name : {"backup.zip"},
     hours : IF fn = "check_recent_history" THEN HoursValues ELSE {0},
     queue_id : IF fn = "remove_queue_item" THEN QueueIds ELSE {0},
     remove_from_client : IF fn = "remove_queue_item" THEN BOOLEAN ELSE {FALSE},
     blocklist : IF fn = "remove_queue_item" THEN BOOLEAN ELSE {FALSE}]

\* A printed line: the fragments of its text, and the values formatted
\* into it.
Line(text, values) == [text |-> text, values |-> values]

\* A call of a client method: the parameters its arguments were bound to.
MethodCall(name, bound) == [name |-> name, bound |-> bound]

\* What _request is given; None for params or json that are not passed.
Request(method, endpoint, params, json) ==
    [method |-> method, endpoint |-> endpoint, params |-> params,
     json |-> json]

\* Positional arguments bound to the parameters of a method, in the order
\* of its signature.
Bind(signature, positional) ==
    [name \in {signature[i] : i \in 1..Len(positional)} |->
        positional[CHOOSE i \in 1..Len(positional) : signature[i] = name]]

\* def delete_queue_item(self, queue_id, blacklist=False, remove_from_client=True)
delete_queue_item_signature == <<"queue_id", "blacklist", "remove_from_client">>

\* def get_history(self, page=1, page_size=10, include_artist=True)
get_history_signature == <<"page", "page_size", "include_artist">>

\* Whether a method of the given signature takes these keyword arguments;
\* Python raises TypeError for a keyword it does not know.
TakesKeywords(signature, kwargs) ==
    DOMAIN kwargs \subseteq {signature[i] : i \in 1..Len(signature)}

\* str(value).lower()
bool_to_str(value) == IF value THEN "true" ELSE "false"

\* self._request('POST', 'system/restore', json={'file': backup_file})
restore_system(backup_file) ==
    Request("POST", <<"system", "restore">>, None, [file |-> backup_file])

\* self._request('DELETE', 'blocklist')
clear_blocklist == Request("DELETE", <<"blocklist">>, None, None)

\* params = {'blacklist': ..., 'removeFromClient': ...};
\* self._request('DELETE', f'queue/{queue_id}', params=params)
delete_queue_item(bound) ==
    Request("DELETE", <<"queue", bound.queue_id>>,
            [blacklist |-> bool_to_str(bound.blacklist),
             removeFromClient |-> bool_to_str(bound.remove_from_client)],
            None)

\* params = {'page': ..., 'pageSize': ..., 'includeArtist': ...};
\* self._request('GET', 'history', params=params)
get_history(bound) ==
    Request("GET", <<"history">>,
            [page |-> bound.page, pageSize |-> bound.page_size,
             includeArtist |-> bool_to_str(TRUE)],
            None)

\* What a request through the client ends in: a result, or one of the
\* exceptions _request raises.
RequestResults ==
    {"ok", "requests.ConnectionError", "requests.HTTPError",
     "requests.JSONDecodeError"}

\* except (ConnectionError, ValueError, KeyError) as e:
MaintenanceHandled == {"ConnectionError", "ValueError", "KeyError"}

\* except (KeyError, ValueError, ImportError) as e:
QueueHandled == {"KeyError", "ValueError", "ImportError"}

\* What ends input() without a line.
InputFailures == {"EOFError", "KeyboardInterrupt"}

ScInit ==
    /\ sc_fn \in ScFunctions
    /\ sc_args \in ScArgs(sc_fn)
    /\ sc_pc = "start"
    /\ sc_answer = None
    /\ sc_outcome = None
    /\ sc_calls = << >>
    /\ sc_requests = << >>
    /\ sc_out = << >>

\* The lines printed before the prompt.
Warned(fn, args) ==
    IF fn = "restore_backup"
      THEN <<Line(<<"Restoring from backup: ">>, <<args.backup_name>>),
             Line(<<"WARNING: This will restore Lidarr to the state when the backup was created.">>, << >>)>>
      ELSE <<Line(<<"WARNING: This will remove ALL items from the blocklist.">>, << >>)>>

\* restore_backup and clear_blocklist up to the test of the answer: the
\* warning, the prompt, and the return when the answer does not confirm.
ScAsk(answer) ==
    /\ sc_pc = "start"
    /\ sc_fn \in {"restore_backup", "clear_blocklist"}
    /\ sc_answer' = Str(answer)
    /\ IF Confirmed(answer)
         THEN /\ sc_pc' = "asked"
              /\ sc_out' = sc_out \o Warned(sc_fn, sc_args)
              /\ UNCHANGED sc_outcome
         ELSE /\ sc_pc' = "done"
              /\ sc_outcome' = [kind |-> "return"]
              /\ sc_out' = sc_out \o Warned(sc_fn, sc_args) \o
                     <<Line(IF sc_fn = "restore_backup"
                              THEN <<"Restore cancelled">>
                              ELSE <<"Clear cancelled">>, << >>)>>
    /\ UNCHANGED <<sc_fn, sc_args, sc_calls, sc_requests>>
    /\ ScFrame

\* input() ends without a line: no handler of the two functions catches it.
ScInputFails(cls) ==
    /\ sc_pc = "start"
    /\ sc_fn \in {"restore_backup", "clear_blocklist"}
    /\ sc_pc' = "done"
    /\ IF Catches(MaintenanceHandled, cls)
         THEN /\ sc_outcome' = [kind |-> "return"]
              /\ sc_out' = sc_out \o Warned(sc_fn, sc_args) \o
                     <<Line(IF sc_fn = "restore_backup"
                              THEN <<"Error restoring backup: ">>
                              ELSE <<"Error clearing blocklist: ">>, <<cls>>)>>
         ELSE /\ sc_outcome' = [kind |-> "raise", exc |-> cls]
              /\ sc_out' = sc_out \o Warned(sc_fn, sc_args)
    /\ UNCHANGED <<sc_fn, sc_args, sc_answer, sc_calls, sc_requests>>
    /\ ScFrame

\* client.restore_system(backup_name) / client.clear_blocklist() and what
\* follows it.
ScDestroy(result) ==
    /\ sc_pc = "asked"
    /\ sc_pc' = "done"
    /\ IF sc_fn = "restore_backup"
         THEN /\ sc_calls' = Append(sc_calls,
                    MethodCall("restore_system",
                               [backup_file |-> sc_args.backup_name]))
              /\ sc_requests' = Append(sc_requests,
                                       restore_system(sc_args.backup_name))
         ELSE /\ sc_calls' = Append(sc_calls,
                                    MethodCall("clear_blocklist", None))
              /\ sc_requests' = Append(sc_requests, clear_blocklist)
    /\ IF result = "ok"
         THEN /\ sc_outcome' = [kind |-> "return"]
              /\ sc_out' = sc_out \o
                   (IF sc_fn = "restore_backup"
                      THEN <<Line(<<"Restore initiated successfully">>, << >>),
                             Line(<<"Note: Lidarr will restart after the restore completes.">>, << >>)>>
                      ELSE <<Line(<<"Blocklist cleared successfully">>, << >>)>>)
         ELSE IF Catches(MaintenanceHandled, result)
           THEN /\ sc_outcome' = [kind |-> "return"]
                /\ sc_out' = Append(sc_out,
                     Line(IF sc_fn = "restore_backup"
                            THEN <<"Error restoring backup: ">>
                            ELSE <<"Error clearing blocklist: ">>, <<result>>))
           ELSE /\ sc_outcome' = [kind |-> "raise", exc |-> result]
                /\ UNCHANGED sc_out
    /\ UNCHANGED <<sc_fn, sc_args, sc_answer>>
    /\ ScFrame

\* The keyword arguments check_recent_history calls get_history with.
HistoryKwargs(hours) ==
    [page |-> 1, page_size |-> 100, sort_key |-> "date", sort_dir |-> "desc"]

\* check_recent_history: the call of get_history and the report made of
\* its records (recent tells whether any is within the last `hours`).
ScCheckRecentHistory(result, recent) ==
    /\ sc_pc = "start"
    /\ sc_fn = "check_recent_history"
    /\ sc_pc' = "done"
    /\ sc_outcome' = [kind |-> "return"]
    /\ sc_calls' = Append(sc_calls,
                          MethodCall("get_history", HistoryKwargs(sc_args.hours)))
    /\ IF ~TakesKeywords(get_history_signature, HistoryKwargs(sc_args.hours))
         THEN \* TypeError, before any request; except Exception as e:
              /\ UNCHANGED sc_requests
              /\ sc_out' = Append(sc_out,
                     Line(<<"Error checking recent history: ">>, <<"TypeError">>))
         ELSE /\ sc_requests' = Append(sc_requests,
                     get_history(HistoryKwargs(sc_args.hours)))
              /\ sc_out' = Append(sc_out,
                   IF result # "ok"
                     THEN Line(<<"Error checking recent history: ">>, <<result>>)
                   ELSE IF ~recent
                     THEN Line(<<"No history items found in the last ">>,
                               <<sc_args.hours>>)
                     ELSE Line(<<"Recent Activity (last ">>, <<sc_args.hours>>))
    /\ UNCHANGED <<sc_fn, sc_args, sc_answer>>
    /\ ScFrame

\* action_msg of remove_queue_item.
ActionMsg(remove_from_client, blocklist) ==
    <<"Removed from queue">>
      \o (IF remove_from_client THEN <<" and download client">> ELSE << >>)
      \o (IF blocklist THEN <<" and added to blocklist">> ELSE << >>)

\* remove_queue_item:
\* client.delete_queue_item(queue_id, remove_from_client, blocklist)
ScRemoveQueueItem(result) ==
    /\ sc_pc = "start"
    /\ sc_fn = "remove_queue_item"
    /\ sc_pc' = "done"
    /\ LET bound == Bind(delete_queue_item_signature,
                         <<sc_args.queue_id, sc_args.remove_from_client,
                           sc_args.blocklist>>)
       IN  /\ sc_calls' = Append(sc_calls, MethodCall("delete_queue_item", bound))
           /\ sc_requests' = Append(sc_requests, delete_queue_item(bound))
    /\ IF result = "ok"
         THEN /\ sc_outcome' = [kind |-> "return"]
              /\ sc_out' = Append(sc_out,
                     Line(ActionMsg(sc_args.remove_from_client,
                                    sc_args.blocklist),
                          <<sc_args.queue_id>>))
         ELSE IF Catches(QueueHandled, result)
           THEN /\ sc_outcome' = [kind |-> "return"]
                /\ sc_out' = Append(sc_out,
                       Line(<<"Error removing queue item: ">>, <<result>>))
           ELSE /\ sc_outcome' = [kind |-> "raise", exc |-> result]
                /\ UNCHANGED sc_out
    /\ UNCHANGED <<sc_fn, sc_args, sc_answer>>
    /\ ScFrame

ScNext ==
    \/ \E answer \in Answers : ScAsk(answer)
    \/ \E cls \in InputFailures : ScInputFails(cls)
    \/ \E result \in RequestResults : ScDestroy(result)
    \/ \E result \in RequestResults, recent \in BOOLEAN :
          ScCheckRecentHistory(result, recent)
    \/ \E result \in RequestResults : ScRemoveQueueItem(result)

\* None of the four functions has been called.
ScIdle ==
    /\ sc_fn = "restore_backup"
    /\ sc_args = [backup_name |-> "backup.zip", hours |-> 0, queue_id |-> 0,
                  remove_from_client |-> FALSE, blocklist |-> FALSE]
    /\ sc_pc = "idle"
    /\ sc_answer = None
    /\ sc_outcome = None
    /\ sc_calls = << >>
    /\ sc_requests = << >>
    /\ sc_out = << >>

(***************************************************************************)
(* system_status_check and the exit status main makes of its result        *)
(* (scripts/monitoring.py)                                                 *)
(***************************************************************************)

\* A call on the client that raised.
Failed == [kind |-> "fail"]

\* An entry of get_disk_space()'s list.
Disk(path, free, total) ==
    [path |-> path, freeSpace |-> free, totalSpace |-> total]

\* The disks the server may report: one without a size, and disks of 1000
\* units that are 50%, 80%, 80.1%, 90%, 90.1% and 100% used.
DiskValues ==
    {Disk("/music", 0, 0)} \cup
    {Disk("/music", free, 1000) : free \in {500, 200, 199, 100, 99, 0}}

\* get_disk_space(): it raises, or gives a list of at most MaxDisks disks.
DiskReplies ==
    {Failed} \cup
    {[kind |-> "list", items |-> items] :
        items \in UNION {[1..n -> DiskValues] : n \in 0..MaxDisks}}

\* get_queue(page=1, page_size=100): it raises, or gives records of which
\* `failed` have status failed or warning and `stalled` have status delay.
QueueReplies ==
    {Failed} \cup
    {[kind |-> "queue", failed |-> f, stalled |-> s] :
        f \in {0, 1}, s \in {0, 5, 6}}

\* get_system_status() and get_wanted(page=1, page_size=1): a result, or an
\* exception.
PlainReplies == {Failed, [kind |-> "ok"]}

\* used_percent > percent, for used_percent = ((total - free) / total) * 100
\* taken exactly.
UsedOver(dsk, percent) ==
    (dsk.totalSpace - dsk.freeSpace) * 100 > percent * dsk.totalSpace

\* f"{used_percent:.1f}", in tenths of a percent, rounded to the nearest.
UsedTenths(dsk) ==
    ((dsk.totalSpace - dsk.freeSpace) * 2000 + dsk.totalSpace)
        \div (2 * dsk.totalSpace)

\* results = {'status': 'healthy', 'checks': {}, 'warnings': [], 'errors': []}
CkInit ==
    /\ ck_replies \in [system : PlainReplies, disks : DiskReplies,
                       queue : QueueReplies, wanted : PlainReplies]
    /\ ck_pc = "system"
    /\ ck_idx = 0
    /\ ck_status = "healthy"
    /\ ck_warnings = << >>
    /\ ck_errors = << >>
    /\ ck_exit = None

\* if results['status'] == 'healthy': results['status'] = 'warning'
WarningIfHealthy(status) == IF status = "healthy" THEN "warning" ELSE status

\* if results['status'] != 'error': results['status'] = 'warning'
WarningUnlessError(status) == IF status # "error" THEN "warning" ELSE status

\* status = client.get_system_status()
CkSystemStatus ==
    /\ ck_pc = "system"
    /\ ck_pc' = "disks"
    /\ IF ck_replies.system = Failed
         THEN /\ ck_errors' = Append(ck_errors,
                     Line(<<"Failed to get system status: ">>, <<"Exception">>))
              /\ ck_status' = "error"
         ELSE UNCHANGED <<ck_errors, ck_status>>
    /\ UNCHANGED <<ck_replies, ck_idx, ck_warnings, ck_exit>>
    /\ CkFrame

\* disk_space = client.get_disk_space()
CkDiskSpace ==
    /\ ck_pc = "disks"
    /\ IF ck_replies.disks = Failed
         THEN /\ ck_errors' = Append(ck_errors,
                     Line(<<"Failed to check disk space: ">>, <<"Exception">>))
              /\ ck_status' = WarningUnlessError(ck_status)
              /\ ck_pc' = "queue"
         ELSE /\ UNCHANGED <<ck_errors, ck_status>>
              /\ ck_pc' = IF ck_replies.disks.items = << >>
                            THEN "queue" ELSE "disk"
    /\ UNCHANGED <<ck_replies, ck_idx, ck_warnings, ck_exit>>
    /\ CkFrame

\* One turn of `for disk in disk_space:`.
CkDisk ==
    /\ ck_pc = "disk"
    /\ LET dsk == ck_replies.disks.items[ck_idx + 1]
       IN  IF dsk.totalSpace > 0 /\ UsedOver(dsk, 90)
             THEN /\ ck_errors' = Append(ck_errors,
                         Line(<<"Critical: Disk ", " is ", "% full">>,
                              <<dsk.path, UsedTenths(dsk)>>))
                  /\ ck_status' = "error"
                  /\ UNCHANGED ck_warnings
           ELSE IF dsk.totalSpace > 0 /\ UsedOver(dsk, 80)
             THEN /\ ck_warnings' = Append(ck_warnings,
                         Line(<<"Warning: Disk ", " is ", "% full">>,
                              <<dsk.path, UsedTenths(dsk)>>))
                  /\ ck_status' = WarningIfHealthy(ck_status)
                  /\ UNCHANGED ck_errors
           ELSE UNCHANGED <<ck_errors, ck_warnings, ck_status>>
    /\ ck_idx' = ck_idx + 1
    /\ ck_pc' = IF ck_idx + 1 = Len(ck_replies.disks.items)
                  THEN "queue" ELSE "disk"
    /\ UNCHANGED <<ck_replies, ck_exit>>
    /\ CkFrame

\* queue_result = client.get_queue(page=1, page_size=100)
CkQueue ==
    /\ ck_pc = "queue"
    /\ ck_pc' = "wanted"
    /\ IF ck_replies.queue = Failed
         THEN /\ ck_errors' = Append(ck_errors,
                     Line(<<"Failed to check queue: ">>, <<"Exception">>))
              /\ ck_status' = WarningUnlessError(ck_status)
              /\ UNCHANGED ck_warnings
         ELSE LET failed_downloads == ck_replies.queue.failed
                  stalled_downloads == ck_replies.queue.stalled
              IN  /\ ck_warnings' = ck_warnings
                       \o (IF failed_downloads > 0
                             THEN <<Line(<<"Warning: ", " failed downloads in queue">>,
                                         <<failed_downloads>>)>>
                             ELSE << >>)
                       \o (IF stalled_downloads > 5
                             THEN <<Line(<<"Warning: ", " stalled downloads">>,
                                         <<stalled_downloads>>)>>
                             ELSE << >>)
                  /\ ck_status' = IF failed_downloads > 0 \/ stalled_downloads > 5
                                    THEN WarningIfHealthy(ck_status)
                                    ELSE ck_status
                  /\ UNCHANGED ck_errors
    /\ UNCHANGED <<ck_replies, ck_idx, ck_exit>>
    /\ CkFrame

\* wanted_result = client.get_wanted(page=1, page_size=1); return results
CkWanted ==
    /\ ck_pc = "wanted"
    /\ ck_pc' = "returned"
    /\ IF ck_replies.wanted = Failed
         THEN /\ ck_warnings' = Append(ck_warnings,
                     Line(<<"Failed to check wanted albums: ">>, <<"Exception">>))
              /\ ck_status' = WarningIfHealthy(ck_status)
         ELSE UNCHANGED <<ck_warnings, ck_status>>
    /\ UNCHANGED <<ck_replies, ck_idx, ck_errors, ck_exit>>
    /\ CkFrame

\* main: return 2 for 'error', 1 for 'warning', 0 otherwise.
CkMain ==
    /\ ck_pc = "returned"
    /\ ck_pc' = "exited"
    /\ ck_exit' = [kind |-> "exit",
                   status |-> IF ck_status = "error" THEN 2
                              ELSE IF ck_status = "warning" THEN 1
                              ELSE 0]
    /\ UNCHANGED <<ck_replies, ck_idx, ck_status, ck_warnings, ck_errors>>
    /\ CkFrame

CkNext ==
    \/ CkSystemStatus
    \/ CkDiskSpace
    \/ CkDisk
    \/ CkQueue
    \/ CkWanted
    \/ CkMain

\* system_status_check has not been called.
CkIdle ==
    /\ ck_replies = None
    /\ ck_pc = "idle"
    /\ ck_idx = 0
    /\ ck_status = "healthy"
    /\ ck_warnings = << >>
    /\ ck_errors = << >>
    /\ ck_exit = None

(***************************************************************************)
(* The specifications                                                      *)
(***************************************************************************)

\* retry_with_backoff alone.
InitRetry == RbInit /\ PgIdle /\ GwIdle /\ CfIdle /\ StIdle /\ ImIdle /\ ScIdle /\ CkIdle
SpecRetry == InitRetry /\ [][RbNext]_vars

\* export_wanted_albums alone.
InitPaging == PgInit /\ RbIdle /\ GwIdle /\ CfIdle /\ StIdle /\ ImIdle /\ ScIdle /\ CkIdle
SpecPaging == InitPaging /\ [][PgNext]_vars

\* export_wanted_albums alone, and running: the function is not suspended
\* for ever while it can take a step.
SpecPagingFair == InitPaging /\ [][PgNext]_vars /\ WF_vars(PgNext)

\* One client and the calls made through it, the retries observed.
Init == GwInit({"c1"}, RetryEnv) /\ RbIdle /\ PgIdle /\ CfIdle /\ StIdle /\ ImIdle /\ ScIdle /\ CkIdle
Spec == Init /\ [][GwNext]_vars

\* One client and the calls made through it, the timing observed.
InitTiming == GwInit({"c1"}, TimingEnv) /\ RbIdle /\ PgIdle /\ CfIdle /\ StIdle /\ ImIdle /\ ScIdle /\ CkIdle
SpecTiming == InitTiming /\ [][GwNext]_vars

\* One client and the operations called on it, the timeouts observed.
InitTimeout == GwInit({"c1"}, TimeoutEnv) /\ RbIdle /\ PgIdle /\ CfIdle /\ StIdle /\ ImIdle /\ ScIdle /\ CkIdle
SpecTimeout == InitTimeout /\ [][GwNext]_vars

\* Config objects on one file.
InitConfig == CfInit /\ StIdle /\ RbIdle /\ PgIdle /\ GwIdle /\ ImIdle /\ ScIdle /\ CkIdle
SpecConfig == InitConfig /\ [][CfNext]_vars

\* A command-line program, from its start to its first request.
InitStartup == StInit /\ RbIdle /\ PgIdle /\ GwIdle /\ ImIdle /\ ScIdle /\ CkIdle
SpecStartup == InitStartup /\ [][StNext]_vars

\* One of the two imports.
InitImport == ImInit /\ RbIdle /\ PgIdle /\ GwIdle /\ CfIdle /\ StIdle /\ ScIdle /\ CkIdle
SpecImport == InitImport /\ [][ImNext]_vars

\* One of the four command functions.
InitScripts == ScInit /\ RbIdle /\ PgIdle /\ GwIdle /\ CfIdle /\ StIdle /\ ImIdle /\ CkIdle
SpecScripts == InitScripts /\ [][ScNext]_vars

\* system_status_check and main's exit status.
InitCheck == CkInit /\ RbIdle /\ PgIdle /\ GwIdle /\ CfIdle /\ StIdle /\ ImIdle /\ ScIdle
SpecCheck == InitCheck /\ [][CkNext]_vars

\* Two clients and the calls made through them, in any interleaving.
InitTwo == GwInit(Clients, TwoEnv) /\ RbIdle /\ PgIdle /\ CfIdle /\ StIdle /\ ImIdle /\ ScIdle /\ CkIdle
SpecTwo == InitTwo /\ [][GwNext]_vars

(***************************************************************************)
(* Properties of LidarrClient._request                                     *)
(***************************************************************************)

\* The call of client c is over.
Ended(c) == gw_pc[c] = "idle" /\ call[c] # None

\* The attempts made so far in the call of client c.
Log(c) == IF call[c] = None THEN << >> ELSE call[c].log

\* Attempt number i of the call of client c was answered with a status of
\* the set sts.
AnsweredWith(c, i, sts) ==
    Log(c)[i].kind = "response" /\ Log(c)[i].status \in sts

\* The statuses the claims name as retryable.
ClaimedRetryable == {429, 500, 502, 503, 504}

\* The exception exc is a transport error: a requests RequestException.
IsTransportError(exc) == Catches({"RequestException"}, exc)

\* C1 (as claimed): whatever the outcome of each call, when call number N of
\* a client ends, at least (N-1) * rate_limit has passed since its first
\* call started.
C1_MinimumElapsed ==
    [][\A c \in instances :
         (gw_pc[c] # "idle" /\ gw_pc'[c] = "idle") =>
             now' - hist[c].first_start
                 >= (hist[c].started - 1) * cfg[c].rate_limit]_vars

\* C2: a call whose first k attempts (1 <= k <= retry_total) are answered
\* with a retryable status and whose attempt k+1 is answered with a
\* 2xx status returns the decoded body of attempt k+1 (None for an empty
\* body) and raises nothing; and no call ends, with an error or otherwise,
\* while all it has seen is retry_total or fewer such statuses.
C2_RetriedThenSuccess ==
    \A c \in instances :
      LET k == Len(Log(c)) - 1 IN
        /\ (/\ Ended(c)
            /\ \A i \in 1..Len(Log(c)) : AnsweredWith(c, i, ClaimedRetryable))
              => Len(Log(c)) = cfg[c].retry_total + 1
        /\ (/\ Ended(c)
            /\ k >= 1
            /\ \A i \in 1..k : AnsweredWith(c, i, ClaimedRetryable)
            /\ AnsweredWith(c, k + 1, 200..299)
            /\ Log(c)[k + 1].body # "garbage")
              => /\ k <= cfg[c].retry_total
                 /\ gw_outcome[c].kind = "return"
                 /\ gw_outcome[c].value =
                      IF Log(c)[k + 1].body = "empty" THEN None
                      ELSE [kind |-> "json", of |-> k + 1]

\* C2 witness: 503, 503, then 200 with a JSON body, returned to the caller.
C2_Witness ==
    /\ Ended("c1")
    /\ Len(Log("c1")) = 3
    /\ AnsweredWith("c1", 1, {503}) /\ AnsweredWith("c1", 2, {503})
    /\ AnsweredWith("c1", 3, {200})
    /\ gw_outcome["c1"] = [kind |-> "return", value |-> [kind |-> "json", of |-> 3]]

\* C3: while every attempt of a call is answered with 500, the call makes at
\* most retry_total + 1 attempts and returns nothing; it ends after exactly
\* retry_total + 1 attempts, by raising a RequestException.
C3_ExhaustedRaises ==
    \A c \in instances :
      (Len(Log(c)) >= 1 /\ \A i \in 1..Len(Log(c)) : AnsweredWith(c, i, {500})) =>
        /\ Len(Log(c)) <= cfg[c].retry_total + 1
        /\ ~Ended(c) => gw_outcome[c] = None
        /\ Ended(c) =>
             /\ Len(Log(c)) = cfg[c].retry_total + 1
             /\ gw_outcome[c].kind = "raise"
             /\ IsTransportError(gw_outcome[c].exc)

\* C3 witness: retry_total = 2, three answers of 500, and the call has raised.
C3_Witness ==
    /\ Ended("c1")
    /\ cfg["c1"].retry_total = 2
    /\ Len(Log("c1")) = 3
    /\ \A i \in 1..3 : AnsweredWith("c1", i, {500})
    /\ gw_outcome["c1"].kind = "raise"

\* Attempt number i of the call of client c was not the last: the request
\* was issued again after it.
Reissued(c, i) == i < Len(Log(c))

\* C4 (as claimed): a response whose status is neither 2xx nor
\* retryable is never retried, and ends the call with a transport error.
C4_OtherStatusRaisesAtOnce ==
    \A c \in instances : \A i \in 1..Len(Log(c)) :
      (/\ Log(c)[i].kind = "response"
       /\ Log(c)[i].status \notin ClaimedRetryable
       /\ Log(c)[i].status \notin 200..299)
        => /\ ~Reissued(c, i)
           /\ Ended(c)
           /\ gw_outcome[c].kind = "raise"
           /\ IsTransportError(gw_outcome[c].exc)

\* Attempt number i was answered with a status that urllib3 retries on
\* account of its Retry-After header.
RetryAfterAnswer(c, i) ==
    Log(c)[i].retry_after /\ Log(c)[i].status \in RETRY_AFTER_STATUS_CODES

\* C4 (amended): the request is issued again after a response only when its
\* status is one of 429, 500, 502, 503, 504 or is one of 413, 429, 503 carrying a
\* Retry-After header; a response with any other 4xx or 5xx status is not
\* retried and ends the call with a transport error (after exactly one
\* attempt when it answers the first), no data being returned; a final 3xx
\* response is no error: the call returns.
C4_OtherErrorStatusRaisesAtOnce ==
    \A c \in instances : \A i \in 1..Len(Log(c)) :
      Log(c)[i].kind = "response" =>
        /\ Reissued(c, i) =>
             \/ Log(c)[i].status \in ClaimedRetryable
             \/ RetryAfterAnswer(c, i)
        /\ (/\ Log(c)[i].status \in 400..599
            /\ Log(c)[i].status \notin ClaimedRetryable
            /\ ~RetryAfterAnswer(c, i))
             => /\ ~Reissued(c, i)
                /\ Ended(c)
                /\ gw_outcome[c] = [kind |-> "raise", exc |-> "requests.HTTPError"]
                /\ IsTransportError(gw_outcome[c].exc)
        /\ (Log(c)[i].status \in 300..399 /\ Log(c)[i].body # "garbage")
             => /\ ~Reissued(c, i)
                /\ Ended(c)
                /\ gw_outcome[c].kind = "return"

\* C4 witness: a 404 answered the only attempt of a call that could have
\* been retried twice, and the call raised.
C4_Witness ==
    /\ Ended("c1")
    /\ cfg["c1"].retry_total = 2
    /\ Len(Log("c1")) = 1
    /\ AnsweredWith("c1", 1, {404})
    /\ gw_outcome["c1"].kind = "raise"

\* C5: a POST is retried like any other method: no call makes more than
\* retry_total + 1 attempts, and a POST answered with retryable
\* statuses only is transmitted exactly retry_total + 1 times (more than
\* once as soon as retry_total >= 1) before the call ends.
C5_PostRetried ==
    \A c \in instances :
      /\ Len(Log(c)) <= cfg[c].retry_total + 1
      /\ (/\ Ended(c)
          /\ call[c].method = "POST"
          /\ \A i \in 1..Len(Log(c)) : AnsweredWith(c, i, ClaimedRetryable))
           => /\ Len(Log(c)) = cfg[c].retry_total + 1
              /\ cfg[c].retry_total >= 1 => Len(Log(c)) > 1
              /\ gw_outcome[c].kind = "raise"

\* C5 witness: one POST call was transmitted three times.
C5_Witness ==
    /\ Ended("c1")
    /\ call["c1"].method = "POST"
    /\ Len(Log("c1")) = 3
    /\ \A i \in 1..3 : AnsweredWith("c1", i, {503})

(***************************************************************************)
(* Properties of the pagination loop                                       *)
(***************************************************************************)

\* The number of records get_wanted call number i handed to the loop.
RecLen(i) == IF served[i].kind = "page" THEN Len(served[i].records) ELSE 0

\* The sizes of the pages served so far.
ServedLens == [i \in 1..Len(served) |-> RecLen(i)]

\* The loop has been left by one of its break statements.
LoopLeft == pg_pc = "output"

\* The records of the pages served up to call number i, concatenated.
RECURSIVE Concatenated(_)
Concatenated(i) ==
    IF i = 0 THEN << >>
    ELSE Concatenated(i - 1)
           \o (IF served[i].kind = "page" THEN served[i].records ELSE << >>)

\* C6: the loop stops at the first page holding fewer than page_size records
\* (or none): while it runs every page served was full, and once it is left
\* the number of fetches is the index of the first short page, whatever
\* totalRecords said; pages of 100, 100, 37 records give 237 records in 3
\* fetches and pages of 100, 100, 100, 0 records give 300 records in 4.
C6_StopsAtFirstShortPage ==
    /\ pg_pc = "loop" =>
         /\ \A i \in 1..Len(served) : RecLen(i) >= page_size
         /\ page = Len(requested) + 1
    /\ LoopLeft =>
         /\ Len(requested) = Len(served)
         /\ Len(served) >= 1
         /\ RecLen(Len(served)) < page_size
         /\ \A i \in 1..Len(served) - 1 : RecLen(i) >= page_size
         /\ \A i \in 1..Len(requested) : requested[i] = <<i, 100>>
    /\ (LoopLeft /\ ServedLens = <<100, 100, 37>>) =>
         Len(all_wanted) = 237 /\ Len(requested) = 3
    /\ (LoopLeft /\ ServedLens = <<100, 100, 100, 0>>) =>
         Len(all_wanted) = 300 /\ Len(requested) = 4

\* C6 witness: the aligned listing 100, 100, 100, 0 has been fetched, with a
\* totalRecords that disagrees with it.
C6_Witness ==
    /\ LoopLeft
    /\ ServedLens = <<100, 100, 100, 0>>
    /\ served[1].totalRecords = 237
    /\ Len(all_wanted) = 300

\* C7: the accumulated sequence is at every moment the concatenation of the
\* records of the pages fetched so far, in the order they were returned, and
\* what is written out is that sequence.
C7_AccumulatesInOrder ==
    /\ all_wanted = Concatenated(Len(served))
    /\ written # None => written.rows = Concatenated(Len(served))

\* C7 witness: three pages were accumulated and written out; record 1 of
\* page 2 follows record 100 of page 1.
C7_Witness ==
    /\ pg_pc = "done"
    /\ written # None
    /\ ServedLens = <<100, 100, 37>>
    /\ written.rows[100] = <<1, 100>>
    /\ written.rows[101] = <<2, 1>>
    /\ written.rows[237] = <<3, 37>>

\* C8 (as claimed): when a page fetch fails with a transport error, no
\* further page is fetched, the error leaves export_wanted_albums as an
\* exception, and nothing is written.
C8_FetchFailurePropagates ==
    (Len(served) >= 1 /\ served[Len(served)].kind = "exc") =>
        /\ Len(requested) = Len(served)
        /\ pg_pc = "done"
        /\ written = None
        /\ pg_outcome = [kind |-> "raise", exc |-> served[Len(served)].cls]


(***************************************************************************)
(* Properties of retry_with_backoff                                        *)
(***************************************************************************)

RECURSIVE Pow(_, _)
Pow(b, e) == IF e = 0 THEN 1 ELSE b * Pow(b, e - 1)

IsConnectivityFailure(c) ==
    c.kind = "exc" /\ Catches(ConnectivityExceptions, c.cls)

\* The helper has returned after k connectivity failures and one success.
ReturnedAfterFailures(k) ==
    /\ rb_pc = "done"
    /\ Len(calls) = k + 1
    /\ \A i \in 1..k : IsConnectivityFailure(calls[i])
    /\ calls[k + 1].kind = "ok"

\* C9: when the operation raises a connectivity error on its first k
\* invocations (k < max_retries) and succeeds on invocation k+1, the helper
\* returns the result of invocation k+1 and has slept exactly k times, the
\* i-th sleep (i = 0..k-1) lasting initial_wait * backoff_factor^i; with
\* max_retries = 3 and k = 2 the sleeps are initial_wait and then
\* initial_wait * backoff_factor.
C9_BackoffThenResult ==
    \A k \in 0..MaxRetriesArg + 1 :
        ReturnedAfterFailures(k) =>
            /\ k < max_retries
            /\ rb_outcome = [kind |-> "return", value |-> calls[k + 1].value]
            /\ Len(sleeps) = k
            /\ \A i \in 0..k - 1 :
                 sleeps[i + 1] = initial_wait * Pow(backoff_factor, i)
            /\ (max_retries = 3 /\ k = 2) =>
                 sleeps = <<initial_wait, initial_wait * backoff_factor>>

\* C9 witness: max_retries = 3, two connectivity errors, then a success, with
\* a backoff factor that makes the two sleeps differ.
C9_Witness ==
    /\ variant = "bin"
    /\ max_retries = 3
    /\ backoff_factor = 2
    /\ ReturnedAfterFailures(2)
    /\ rb_outcome = [kind |-> "return", value |-> 3]

\* C10: when every invocation fails with a connectivity-class error and
\* max_retries >= 1, the helper invokes the operation exactly max_retries
\* times, sleeps exactly max_retries - 1 times (never after the final
\* attempt), and raises the exception object of the final invocation.
C10_ExhaustedRaisesLast ==
    (max_retries >= 1 /\ \A i \in 1..Len(calls) : IsConnectivityFailure(calls[i])) =>
        /\ Len(calls) <= max_retries
        /\ Len(sleeps) <= max_retries - 1
        /\ Len(sleeps) = IF Len(calls) = max_retries THEN Len(calls) - 1
                         ELSE Len(calls)
        /\ rb_pc = "done" =>
             /\ Len(calls) = max_retries
             /\ Len(sleeps) = max_retries - 1
             /\ rb_outcome = [kind |-> "raise", exc |-> calls[max_retries]]
             /\ rb_outcome.exc.by = max_retries

\* C10 witness: three invocations, all failing, and the helper has raised.
C10_Witness ==
    /\ max_retries = 3
    /\ rb_pc = "done"
    /\ Len(calls) = 3
    /\ \A i \in 1..3 : IsConnectivityFailure(calls[i])
    /\ rb_outcome.kind = "raise"

\* Invocation number i of the operation raised an exception of a class in clss.
RaisedIn(i, clss) == calls[i].kind = "exc" /\ calls[i].cls \in clss

\* The exception of invocation number i left the helper from that attempt:
\* the operation was not invoked again, nothing was slept after it (every
\* earlier attempt was followed by one sleep), and the caller got that
\* exception object.
PropagatedFrom(i) ==
    /\ i = Len(calls)
    /\ rb_pc = "done"
    /\ rb_outcome = [kind |-> "raise", exc |-> calls[i]]
    /\ Len(sleeps) = i - 1

\* C11: a KeyboardInterrupt or SystemExit raised by the operation is never
\* retried, in either copy of the helper: it propagates from the attempt in
\* which it occurs, with no sleep and no further invocation, whatever the
\* remaining attempt budget.
C11_InterruptNotRetried ==
    \A i \in 1..Len(calls) :
        RaisedIn(i, SystemExceptions) => PropagatedFrom(i)

\* C11 witness: with three attempts allowed, the second invocation raised
\* KeyboardInterrupt after a connectivity error, and the helper has raised
\* it with one attempt left.
C11_Witness ==
    /\ max_retries = 3
    /\ Len(calls) = 2
    /\ IsConnectivityFailure(calls[1])
    /\ RaisedIn(2, {"KeyboardInterrupt"})
    /\ rb_outcome = [kind |-> "raise", exc |-> calls[2]]
    /\ sleeps = <<initial_wait>>

\* C12 (as claimed): an exception of the operation that is no
\* connectivity/timeout-class failure and no interrupt (KeyError, say) is not
\* absorbed: it propagates from the invocation that raised it, with no sleep
\* and no further invocation.
C12_OnlyConnectivityRetried ==
    \A i \in 1..Len(calls) :
        (/\ calls[i].kind = "exc"
         /\ ~IsConnectivityFailure(calls[i])
         /\ ~RaisedIn(i, SystemExceptions))
          => PropagatedFrom(i)

(***************************************************************************)
(* Further properties of LidarrClient._request                             *)
(***************************************************************************)

\* The last attempt of the call of client c.
LastAttempt(c) == Log(c)[Len(Log(c))]

\* The call of client c is over and its last attempt got no response.
EndedWithoutResponse(c) ==
    Ended(c) /\ Len(Log(c)) >= 1 /\ LastAttempt(c).kind = "connfail"

\* The call of client c is over and its last attempt was answered with a
\* status of the set sts.
EndedWithStatus(c, sts) ==
    Ended(c) /\ Len(Log(c)) >= 1 /\ AnsweredWith(c, Len(Log(c)), sts)

\* The call of client c raised a transport error to its caller.
RaisedTransportError(c) ==
    gw_outcome[c].kind = "raise" /\ IsTransportError(gw_outcome[c].exc)

\* C13 (as claimed): a call that ends with a connection failure, a timeout
\* or a final status outside 2xx raises a RequestException and returns no
\* value.
C13_EveryFailureRaises ==
    \A c \in instances :
        (EndedWithoutResponse(c) \/ EndedWithStatus(c, Statuses \ (200..299)))
            => RaisedTransportError(c)

\* C13 (amended): a call that ends with a connection failure, a timeout or a
\* final 4xx or 5xx status raises a RequestException and returns no value;
\* whatever a call raises is a RequestException; and a call that is not over
\* has returned nothing.
C13_EveryErrorStatusRaises ==
    \A c \in instances :
        /\ (EndedWithoutResponse(c) \/ EndedWithStatus(c, 400..599))
             => RaisedTransportError(c)
        /\ gw_outcome[c].kind = "raise" => IsTransportError(gw_outcome[c].exc)
        /\ ~Ended(c) => gw_outcome[c] = None

\* C13 witness: a call that could be retried once was refused, then timed
\* out, and raised requests' ConnectTimeout.
C13_Witness ==
    /\ EndedWithoutResponse("c1")
    /\ Len(Log("c1")) = 2
    /\ Log("c1")[1].kind = "connfail" /\ Log("c1")[1].failure = "refused"
    /\ LastAttempt("c1").failure = "connect_timeout"
    /\ gw_outcome["c1"] = [kind |-> "raise", exc |-> "requests.ConnectTimeout"]

\* C14: a call whose final response has a 2xx status returns None when the
\* body is empty, and the value its body decodes to when the body is a
\* JSON document; it raises nothing.
C14_EmptyBodyIsNone ==
    \A c \in instances :
        EndedWithStatus(c, 200..299) =>
            /\ LastAttempt(c).body = "empty" =>
                 gw_outcome[c] = [kind |-> "return", value |-> None]
            /\ LastAttempt(c).body = "json" =>
                 gw_outcome[c] = [kind |-> "return",
                                  value |-> [kind |-> "json", of |-> Len(Log(c))]]

\* C14 witness: a 200 with an empty body was returned as None.
C14_Witness ==
    /\ EndedWithStatus("c1", {200})
    /\ LastAttempt("c1").body = "empty"
    /\ gw_outcome["c1"] = [kind |-> "return", value |-> None]

\* Client c takes the step that starts a call, finishes one, or any step.
Begins(c) == gw_pc[c] = "idle" /\ gw_pc'[c] # "idle"
Finishes(c) == gw_pc[c] = "sending" /\ gw_pc'[c] = "idle"
Acts(c) == gw_pc'[c] # gw_pc[c] \/ call'[c] # call[c]

\* The rate-limit check of the call client c starts is made against its own
\* last_request_time: the call sleeps exactly when less than rate_limit has
\* passed since then, and until rate_limit has passed since then.
ChecksOwnLastRequestTime(c) ==
    Begins(c) =>
        /\ gw_pc'[c] = "sleeping" <=> now - last_request_time[c] < cfg[c].rate_limit
        /\ gw_pc'[c] = "sleeping" =>
             call'[c].wake = last_request_time[c] + cfg[c].rate_limit

\* C15: last_request_time is 0 from construction until the first call; a
\* call that completes successfully leaves it equal to its completion time;
\* it changes at no other step than the completion of a call; and the
\* rate-limit check of the next call is made against it.
C15_LastRequestTime ==
    [][\A c \in instances :
         /\ hist[c].started = 0 => last_request_time[c] = 0
         /\ (Finishes(c) /\ gw_outcome'[c].kind = "return")
              => last_request_time'[c] = now'
         /\ last_request_time'[c] # last_request_time[c] => Finishes(c)
         /\ ChecksOwnLastRequestTime(c)]_vars

\* C15 witness: the first call completed successfully one tick after the
\* start, and the second call, started at once, sleeps until rate_limit = 2
\* has passed since that completion.
C15_Witness ==
    /\ hist["c1"].started = 2
    /\ cfg["c1"].rate_limit = 2
    /\ last_request_time["c1"] = Epoch + 1
    /\ gw_pc["c1"] = "sleeping"
    /\ call["c1"].wake = Epoch + 3

\* C16: a step of one client leaves the last_request_time and the
\* configuration of every other client unchanged, and the rate-limit check of
\* a call depends on nothing but the client's own last_request_time, in every
\* interleaving of the calls of two clients.
C16_InstancesIndependent ==
    [][\A c \in instances :
         /\ cfg'[c] = cfg[c]
         /\ ~Acts(c) => /\ last_request_time'[c] = last_request_time[c]
                        /\ gw_outcome'[c] = gw_outcome[c]
         /\ ChecksOwnLastRequestTime(c)]_vars

\* C16 witness: client c1 has just completed a call, and the first call of
\* client c2, started at the same time, went out without sleeping.
C16_Witness ==
    /\ last_request_time["c1"] = now
    /\ now > Epoch
    /\ hist["c2"].started = 1
    /\ gw_pc["c2"] = "sending"
    /\ call["c2"].wake = now
    /\ last_request_time["c2"] = 0

\* C17 (as claimed): a request goes out with the caller's timeout when the
\* caller supplies one, and with the timeout of the constructor otherwise,
\* whatever the operation.
C17_TimeoutOfCallerOrConstructor ==
    \A c \in instances :
        call[c] # None =>
            call[c].timeout =
                IF call[c].op.by_caller
                  THEN KwargsTimeout(call[c].op.kwargs, cfg[c].timeout)
                  ELSE cfg[c].timeout

(***************************************************************************)
(* Properties of the start of the command-line programs                    *)
(***************************************************************************)

\* The optional str v supplies a value: it is a str and is not empty.
Supplies(v) == v.kind = "str" /\ Len(v.chars) > 0

\* The connection section saved in the file, None when there is none.
SavedConnection == GetConnection(Load(disk))

\* The file has a connection section with at least one key.
HasSavedConnection ==
    /\ SavedConnection # None
    /\ SavedConnection # Section(Missing, Missing)

\* Neither the command line nor the saved connection settings supply an API
\* key.
NoApiKeySupplied ==
    /\ ~Supplies(st_args.api_key)
    /\ ~HasSavedConnection \/ ~Supplies(SavedConnection.api_key)

\* The program has ended with the given outcome, before any client was
\* constructed and before any request was issued.
FailedFast(outcome) ==
    /\ st_pc = "done"
    /\ st_outcome = outcome
    /\ st_clients = << >>
    /\ st_requests = 0

\* C18 (as claimed): when neither the command line nor the saved connection
\* settings supply an API key, main of lidarr_search returns 1 and
\* setup_client exits with status 1, before any client is constructed and
\* any request issued.
C18_MissingApiKeyFailsFast ==
    (NoApiKeySupplied /\ st_pc # "start") =>
        FailedFast(IF st_prog = "lidarr_search"
                     THEN [kind |-> "return", value |-> 1]
                     ELSE [kind |-> "exit", status |-> 1])

\* C18 (amended): main of lidarr_search returns 1, before any client is
\* constructed and any request issued, when neither the command line nor the
\* saved connection settings supply an API key, and never constructs a
\* client with an empty key.  setup_client, when the command line does not
\* supply both URL and API key, exits with status 1 when there are no saved
\* connection settings, and raises TypeError from the constructor call when
\* the saved settings lack the api_key; in both cases no client is
\* constructed and no request issued.
C18_MissingApiKeyOrSettingsFailsFast ==
    /\ (st_prog = "lidarr_search" /\ NoApiKeySupplied /\ st_pc # "start")
         => FailedFast([kind |-> "return", value |-> 1])
    /\ st_prog = "lidarr_search"
         => \A i \in 1..Len(st_clients) : Supplies(st_clients[i].api_key)
    /\ (/\ st_prog = "data_utils"
        /\ ~(Supplies(st_args.url) /\ Supplies(st_args.api_key))
        /\ st_pc # "start")
         => /\ ~HasSavedConnection
                 => FailedFast([kind |-> "exit", status |-> 1])
            /\ (HasSavedConnection /\ SavedConnection.api_key = Missing)
                 => FailedFast([kind |-> "raise", exc |-> "TypeError"])

\* C18 witness: main of lidarr_search, given no --api-key and a file whose
\* connection section has a base_url only, has returned 1.
C18_Witness ==
    /\ st_prog = "lidarr_search"
    /\ st_args.api_key = None
    /\ disk = JsonFile(Settings(Section(Str(<<"h">>), Missing)))
    /\ FailedFast([kind |-> "return", value |-> 1])

(***************************************************************************)
(* Properties of Config                                                    *)
(***************************************************************************)

\* short is full with its trailing slashes removed: a prefix of full that
\* does not end with a slash and is followed by slashes only.
IsStripped(short, full) ==
    /\ Len(short) <= Len(full)
    /\ SubSeq(full, 1, Len(short)) = short
    /\ short = << >> \/ short[Len(short)] # "/"
    /\ \A i \in (Len(short) + 1)..Len(full) : full[i] = "/"

\* result is what get_connection_settings owes for the arguments given to
\* save_connection_settings.
RoundTrips(given, result) ==
    /\ result # None
    /\ result.base_url.kind = "str"
    /\ IsStripped(result.base_url.chars, given.base_url)
    /\ result.api_key = given.api_key

RECURSIVE NewAmong(_)
NewAmong(n) ==
    IF n = 0 THEN 0
    ELSE NewAmong(n - 1) + (IF im_input.items[n] \notin {"blank", "existing"} THEN 1 ELSE 0)

\* The number of lines of im_out that are the given line.
Printed(line) == Cardinality({i \in 1..Len(im_out) : im_out[i] = line})

\* C20: with dry_run = True neither import calls add_artist or add_tag, for
\* any input: every operation it calls on the client is a GET, and each new
\* item is only reported and counted as one that would be added.
C20_DryRunWritesNothing ==
    dry_run =>
        /\ \A i \in 1..Len(im_calls) :
             /\ im_calls[i].method = "GET"
             /\ im_calls[i].name \notin {"add_artist", "add_tag"}
        /\ Printed("Added") = 0
        /\ Printed("Would add") = NewAmong(im_idx)
        /\ added_count = NewAmong(im_idx)

\* C20 witness: a dry run of import_artists_from_json over two new artists
\* has ended: both were reported, after the four reads of the server.
C20_Witness ==
    /\ im_fn = "artists"
    /\ dry_run
    /\ im_pc = "done"
    /\ im_input.kind = "list"
    /\ im_input.items = <<"new", "new">>
    /\ added_count = 2
    /\ Printed("Would add") = 2
    /\ Len(im_calls) = 4

(***************************************************************************)
(* Properties of the command functions                                     *)
(***************************************************************************)

\* The two functions that ask before they act.
Asking == sc_fn \in {"restore_backup", "clear_blocklist"}

\* The destructive request of the function that runs.
DestructiveRequest ==
    IF sc_fn = "restore_backup"
      THEN [method |-> "POST", endpoint |-> <<"system", "restore">>,
            params |-> None, json |-> [file |-> sc_args.backup_name]]
      ELSE [method |-> "DELETE", endpoint |-> <<"blocklist">>,
            params |-> None, json |-> None]

\* The line is the word yes or the letter y, in any letter case, with any
\* white space before and after it.
SaysYes(chars) ==
    \E i, j \in 1..Len(chars) :
        /\ \A k \in 1..Len(chars) : (k < i \/ k > j) => chars[k] = " "
        /\ \/ i = j /\ chars[i] \in {"y", "Y"}
           \/ /\ j = i + 2
              /\ chars[i] \in {"y", "Y"}
              /\ chars[i + 1] \in {"e", "E"}
              /\ chars[i + 2] \in {"s", "S"}

\* C21, as stated: restore_backup and clear_blocklist issue their request
\* only after the answer 'yes' or 'y' was given at the prompt; after any
\* other answer no request is issued.
C21_RequestOnlyAfterYes ==
    Asking /\ sc_requests # << >> =>
        /\ sc_answer # None
        /\ sc_answer.chars \in {<<"y", "e", "s">>, <<"y">>}

\* C21, amended: restore_backup and clear_blocklist issue their request,
\* and no other and only once, only after an answer at the prompt that is
\* 'yes' or 'y' once its surrounding white space is dropped and its letters
\* are made lower case; after any other answer, and when the prompt ends
\* without an answer, no request is issued.
C21_RequestOnlyAfterYesInAnyCase ==
    Asking =>
        /\ sc_requests # << >> =>
              /\ sc_answer # None
              /\ SaysYes(sc_answer.chars)
              /\ sc_requests = <<DestructiveRequest>>
        /\ (sc_pc = "done" /\ sc_answer # None /\ SaysYes(sc_answer.chars))
              => sc_requests = <<DestructiveRequest>>
        /\ sc_pc \in {"start", "asked"} => sc_requests = << >>

\* The answer " Y" was given and the blocklist clear was issued.
C21_Witness ==
    /\ sc_fn = "clear_blocklist"
    /\ sc_answer = Str(<<" ", "Y">>)
    /\ sc_requests = <<DestructiveRequest>>
    /\ sc_outcome = [kind |-> "return"]

\* min(1000, max(100, 5 x h))
ClaimedPageSize(h) ==
    IF 5 * h < 100 THEN 100 ELSE IF 5 * h > 1000 THEN 1000 ELSE 5 * h

\* C22: check_recent_history(client, hours = h) asks the client for page 1 of
\* the history with page_size = min(1000, max(100, 5 x h)).
C22_HistoryPageSize ==
    (sc_fn = "check_recent_history" /\ sc_pc = "done") =>
        \E i \in 1..Len(sc_calls) :
            /\ sc_calls[i].name = "get_history"
            /\ sc_calls[i].bound.page = 1
            /\ sc_calls[i].bound.page_size = ClaimedPageSize(sc_args.hours)

\* C24: remove_queue_item(client, id, remove_from_client = r, blocklist = b)
\* issues one DELETE on queue/<id> whose parameters say removeFromClient = r
\* and blacklist = b.
C24_QueueItemParameters ==
    (sc_fn = "remove_queue_item" /\ sc_pc = "done") =>
        /\ Len(sc_requests) = 1
        /\ sc_requests[1].method = "DELETE"
        /\ sc_requests[1].endpoint = <<"queue", sc_args.queue_id>>
        /\ sc_requests[1].params.removeFromClient
             = (IF sc_args.remove_from_client THEN "true" ELSE "false")
        /\ sc_requests[1].params.blacklist
             = (IF sc_args.blocklist THEN "true" ELSE "false")

(***************************************************************************)
(* Properties of system_status_check                                       *)
(***************************************************************************)

\* system_status_check has returned its result.
Returned == ck_pc \in {"returned", "exited"}

\* The disks get_disk_space() reported, none when it raised.
ReportedDisks ==
    IF Returned /\ ck_replies.disks # Failed
      THEN {ck_replies.disks.items[i] : i \in 1..Len(ck_replies.disks.items)}
      ELSE {}

\* The used share of the disk is at least 90%.
NinetyPercentUsed(d) ==
    d.totalSpace > 0 /\ (d.totalSpace - d.freeSpace) * 10 >= 9 * d.totalSpace

\* C23: every disk whose used share is at least 90% makes the overall
\* status 'error' and leaves an entry 'Critical: Disk <path> is <used>%
\* full' in errors; so does the disk with 100 free of 1000, 90.0% used.
C23_NinetyPercentIsError ==
    \A d \in ReportedDisks :
        NinetyPercentUsed(d) =>
            /\ ck_status = "error"
            /\ \E i \in 1..Len(ck_errors) :
                  /\ ck_errors[i].text = <<"Critical: Disk ", " is ", "% full">>
                  /\ ck_errors[i].values[1] = d.path

\* The worst severity recorded in the two lists.
WorstRecorded ==
    IF ck_errors # << >> THEN "error"
    ELSE IF ck_warnings # << >> THEN "warning"
    ELSE "healthy"

\* C30: in the result of system_status_check the overall status is 'error'
\* exactly when errors is non-empty, otherwise 'warning' exactly when
\* warnings is non-empty, otherwise 'healthy'.
C30_StatusIsWorstSeverity == Returned => ck_status = WorstRecorded

\* How bad a status is.
Severity(status) ==
    CASE status = "healthy" -> 0 [] status = "warning" -> 1 [] status = "error" -> 2

\* During the check the status never moves back.
StatusNeverMovesBack == [][Severity(ck_status') >= Severity(ck_status)]_vars

(***************************************************************************)
(* Properties of a failed call of LidarrClient._request                    *)
(***************************************************************************)

\* The call of client c ends in this step by raising a transport error.
Fails(c) ==
    /\ Finishes(c)
    /\ gw_outcome'[c].kind = "raise"
    /\ IsTransportError(gw_outcome'[c].exc)

\* C25, as stated: a call that raises a transport error leaves
\* last_request_time unchanged.
C25_FailedCallLeavesLastRequestTime ==
    [][\A c \in instances :
         Fails(c) => last_request_time'[c] = last_request_time[c]]_vars

\* C25, amended: a call that raises because no response came, because the
\* retries were exhausted or because of the status of the response leaves
\* last_request_time unchanged, and the rate-limit check of the following
\* call is made against that value; a call that raises because the body of
\* a successful response does not decode has set last_request_time to its
\* completion time.
C25_FailedCallBeforeDecoding ==
    [][\A c \in instances :
         /\ Fails(c) =>
              IF gw_outcome'[c].exc = "requests.JSONDecodeError"
                THEN last_request_time'[c] = now'
                ELSE last_request_time'[c] = last_request_time[c]
         /\ Begins(c) =>
              call'[c].wake = IF now - last_request_time[c] < cfg[c].rate_limit
                                THEN last_request_time[c] + cfg[c].rate_limit
                                ELSE now]_vars

\* The first call succeeded at Epoch; the second, made a tick later, was
\* answered 404 and raised, and last_request_time is still Epoch.
C25_Witness ==
    /\ hist["c1"].started = 2
    /\ gw_pc["c1"] = "idle"
    /\ gw_outcome["c1"] = [kind |-> "raise", exc |-> "requests.HTTPError"]
    /\ now = Epoch + 1
    /\ last_request_time["c1"] = Epoch

(***************************************************************************)
(* Properties of retry_with_backoff over every max_retries                 *)
(***************************************************************************)

\* C26: for every max_retries, 0 included, retry_with_backoff (the copy main
\* of lidarr_search calls) invokes the operation at least once and at most
\* max_retries times, and an exception that leaves it is one the operation
\* raised.
C26_InvokedAtLeastOnce ==
    (variant = "bin" /\ rb_pc = "done") =>
        /\ Len(calls) >= 1
        /\ Len(calls) <= max_retries
        /\ rb_outcome.kind = "raise" =>
              \E i \in 1..Len(calls) :
                  calls[i].kind = "exc" /\ calls[i] = rb_outcome.exc

\* The same for max_retries of at least 1.
InvokedAtLeastOnceWhenPositive == max_retries >= 1 => C26_InvokedAtLeastOnce

(***************************************************************************)
(* Termination of the pagination loop of export_wanted_albums              *)
(***************************************************************************)

\* The outcome of a get_wanted call is a page of page_size records.
FullPage(outcome) ==
    outcome.kind = "page" /\ Len(outcome.records) = page_size

\* The outcome is a page with fewer records than page_size, none included.
ShortPage(outcome) ==
    outcome.kind = "page" /\ Len(outcome.records) < page_size

\* Request number i asked for page i: the pages are requested in increasing
\* order from 1, each once.
PagesInOrder ==
    \A i \in 1..Len(requested) : requested[i] = <<i, page_size>>

\* C27: the loop requests the pages 1, 2, 3, ... in increasing order, each
\* at most once; as long as every page served was full the loop goes on, and
\* goes on to request the next page; once a short page has been served the
\* function comes to its end.
C27_PaginationTerminates ==
    /\ [](PagesInOrder)
    /\ []((\A i \in 1..Len(served) : FullPage(served[i])) => pg_pc = "loop")
    /\ \A p \in 1..MaxPages :
          (pg_pc = "loop" /\ page = p) ~> (Len(requested) >= p)
    /\ (\E i \in 1..Len(served) : ShortPage(served[i])) ~> (pg_pc = "done")

\* Pages 1, 2 and 3 were requested, the third was short, and the function
\* has ended.
C27_Witness ==
    /\ requested = <<<<1, page_size>>, <<2, page_size>>, <<3, page_size>>>>
    /\ FullPage(served[1]) /\ FullPage(served[2])
    /\ ShortPage(served[3]) /\ served[3].records # << >>
    /\ pg_pc = "done"

(***************************************************************************)
(* Properties of import_artists_from_json when it adds                     *)
(***************************************************************************)

\* The positions in im_calls of the add_artist calls for foreignArtistId id.
AddCallsFor(id) ==
    {i \in 1..Len(im_calls) :
        /\ im_calls[i].name = "add_artist"
        /\ im_calls[i].kwargs = {<<"json", id>>}}

\* C28: in a run of import_artists_from_json with dry_run = False,
\* add_artist is never called for a foreignArtistId the library has and at
\* most once for any foreignArtistId, also when the input holds it several
\* times.
C28_AddedAtMostOnce ==
    (im_fn = "artists" /\ ~dry_run) =>
        /\ AddCallsFor("existing") = {}
        /\ \A id \in {"new", "other"} : Cardinality(AddCallsFor(id)) <= 1

\* add_artist is never called for a foreignArtistId the library has.
NeverAddsExisting ==
    (im_fn = "artists" /\ ~dry_run) => AddCallsFor("existing") = {}

\* The import of artists has come to its end: after the summary, or by an
\* error that ended it before.
ImportEnded == im_fn = "artists" /\ ~dry_run /\ im_pc = "done"

\* C29: in import_artists_from_json with dry_run = False, once the loop has
\* been entered every failure of add_artist is counted in error_count and
\* the loop goes on: the run ends with the summary printed and with
\* added_count + skipped_count + error_count equal to the number of entries.
C29_FailureCountedImportGoesOn ==
    (ImportEnded /\ Len(im_calls) > Len(Preparation("artists"))) =>
        /\ Printed("Summary: Added") = 1
        /\ added_count + skipped_count + error_count = Len(im_input.items)

\* Whenever the summary is printed the three counts add up to the number of
\* entries.
CountedWhenSummarised ==
    (ImportEnded /\ Printed("Summary: Added") = 1) =>
        added_count + skipped_count + error_count = Len(im_input.items)

====
